---- MODULE Spec2Model ----
(***************************************************************************)
(* Model of the statistical calculation core of Experiment-Calculator      *)
(* (src/experiment_calculator/core/calculations.py, core/validation.py)    *)
(* and of the significance page that drives it (pages/significance.py).    *)
(*                                                                         *)
(* Python/numpy floating point numbers are modelled as decimal floating    *)
(* point numbers with a four digit significand, an unbounded exponent and  *)
(* the IEEE special values nan, +inf and -inf.  Every arithmetic operation *)
(* rounds its exact result to four significant digits (half to even), the  *)
(* way binary64 rounds to 53 bits.  numpy scalar arithmetic never raises:  *)
(* x/0 is +-inf or nan and sqrt of a negative number is nan.               *)
(***************************************************************************)
EXTENDS Integers, Sequences, FiniteSets, TLC

(***************************************************************************)
(* Decimal floating point                                                  *)
(***************************************************************************)
Pow10(k) == <<1, 10, 100, 1000, 10000, 100000, 1000000, 10000000, 100000000, 1000000000>>[k + 1]

Abs(n) == IF n < 0 THEN -n ELSE n

Sign(n) == IF n < 0 THEN -1 ELSE IF n > 0 THEN 1 ELSE 0

Digits(n) ==
    IF n < 10 THEN 1 ELSE IF n < 100 THEN 2 ELSE IF n < 1000 THEN 3
    ELSE IF n < 10000 THEN 4 ELSE IF n < 100000 THEN 5 ELSE IF n < 1000000 THEN 6
    ELSE IF n < 10000000 THEN 7 ELSE IF n < 100000000 THEN 8
    ELSE IF n < 1000000000 THEN 9 ELSE 10

\* number of significant decimal digits of a float
Prec == 4

NaN == [cls |-> "nan", m |-> 0, e |-> 0]

PInf == [cls |-> "inf", m |-> 1, e |-> 0]

NInf == [cls |-> "inf", m |-> -1, e |-> 0]

Zero == [cls |-> "num", m |-> 0, e |-> 0]

\* a / p rounded to the nearest integer, ties to even (a >= 0, p > 0)
RoundDiv(a, p) ==
    LET q == a \div p
        r == a % p
    IN  IF 2 * r > p \/ (2 * r = p /\ q % 2 = 1) THEN q + 1 ELSE q

\* the float nearest to m * 10^e
F(m, e) ==
    IF m = 0 THEN Zero
    ELSE LET a == Abs(m)
             d == Digits(a)
         IN  IF d <= Prec
             THEN [cls |-> "num", m |-> Sign(m) * a * Pow10(Prec - d), e |-> e - (Prec - d)]
             ELSE LET k == d - Prec
                      q == RoundDiv(a, Pow10(k))
                  IN  IF q = Pow10(Prec)
                      THEN [cls |-> "num", m |-> Sign(m) * Pow10(Prec - 1), e |-> e + k + 1]
                      ELSE [cls |-> "num", m |-> Sign(m) * q, e |-> e + k]

One == F(1, 0)

Two == F(2, 0)

IsNaN(a) == a.cls = "nan"

IsInf(a) == a.cls = "inf"

IsFinite(a) == a.cls = "num"

FNeg(a) == IF a.cls = "nan" THEN NaN ELSE [a EXCEPT !.m = -a.m]

\* a < b; every comparison with nan is false
FLt(a, b) ==
    IF IsNaN(a) \/ IsNaN(b) THEN FALSE
    ELSE IF IsInf(a) THEN a.m < 0 /\ ~(IsInf(b) /\ b.m < 0)
    ELSE IF IsInf(b) THEN b.m > 0
    ELSE IF a.m <= 0 /\ b.m >= 0 THEN a.m < b.m
    ELSE IF a.m >= 0 /\ b.m <= 0 THEN FALSE
    ELSE IF a.m > 0 THEN a.e < b.e \/ (a.e = b.e /\ a.m < b.m)
    ELSE a.e > b.e \/ (a.e = b.e /\ a.m < b.m)

FEq(a, b) == ~IsNaN(a) /\ ~IsNaN(b) /\ a = b

FLe(a, b) == FLt(a, b) \/ FEq(a, b)

FGt(a, b) == FLt(b, a)

FGe(a, b) == FLe(b, a)

FAdd(a, b) ==
    IF IsNaN(a) \/ IsNaN(b) THEN NaN
    ELSE IF IsInf(a) THEN (IF IsInf(b) /\ b.m # a.m THEN NaN ELSE a)
    ELSE IF IsInf(b) THEN b
    ELSE IF a.m = 0 THEN b
    ELSE IF b.m = 0 THEN a
    ELSE LET hi == IF a.e >= b.e THEN a ELSE b
             lo == IF a.e >= b.e THEN b ELSE a
             sh == hi.e - lo.e
         IN  IF sh > Prec + 1 THEN hi
             ELSE F(hi.m * Pow10(sh) + lo.m, lo.e)

FSub(a, b) == FAdd(a, FNeg(b))

FMul(a, b) ==
    IF IsNaN(a) \/ IsNaN(b) THEN NaN
    ELSE IF IsInf(a) \/ IsInf(b)
         THEN (IF a.m = 0 \/ b.m = 0 THEN NaN
               ELSE IF Sign(a.m) = Sign(b.m) THEN PInf ELSE NInf)
    ELSE F(a.m * b.m, a.e + b.e)

\* numpy true division: a nonzero number over zero is +-inf, 0/0 is nan
FDiv(a, b) ==
    IF IsNaN(a) \/ IsNaN(b) THEN NaN
    ELSE IF IsInf(a)
         THEN (IF IsInf(b) THEN NaN
               ELSE IF Sign(a.m) * (IF b.m < 0 THEN -1 ELSE 1) > 0 THEN PInf ELSE NInf)
    ELSE IF IsInf(b) THEN Zero
    ELSE IF b.m = 0
         THEN (IF a.m = 0 THEN NaN ELSE IF a.m > 0 THEN PInf ELSE NInf)
    ELSE LET q == (Abs(a.m) * Pow10(Prec + 1)) \div Abs(b.m)
         IN  F(Sign(a.m) * Sign(b.m) * q, a.e - b.e - (Prec + 1))

RECURSIVE ISqrtIn(_, _, _)
\* the largest r in lo..hi with r * r <= x (lo * lo <= x < (hi + 1)^2)
ISqrtIn(x, lo, hi) ==
    IF lo = hi THEN lo
    ELSE LET mid == (lo + hi + 1) \div 2
         IN  IF mid * mid <= x THEN ISqrtIn(x, mid, hi) ELSE ISqrtIn(x, lo, mid - 1)

\* numpy.sqrt: nan for a negative argument
FSqrt(a) ==
    IF IsNaN(a) THEN NaN
    ELSE IF IsInf(a) THEN (IF a.m > 0 THEN PInf ELSE NaN)
    ELSE IF a.m < 0 THEN NaN
    ELSE IF a.m = 0 THEN Zero
    ELSE LET odd == a.e % 2 = 1
             mm == IF odd THEN a.m * 10 ELSE a.m
             ee == IF odd THEN a.e - 1 ELSE a.e
         IN  F(ISqrtIn(mm * Pow10(4), 0, 31622), (ee \div 2) - 2)

FSquare(a) == FMul(a, a)

\* Python's builtin max(a, b): b only when b > a, so max(nan, b) is nan
PyMax(a, b) == IF FGt(b, a) THEN b ELSE a

\* Python's builtin min(a, b): b only when b < a
PyMin(a, b) == IF FLt(b, a) THEN b ELSE a

(***************************************************************************)
(* scipy.stats distribution functions, tabulated to the float precision    *)
(***************************************************************************)
\* upper tail probabilities, in units of 10^-4 ...
PpfQ == <<1, 2, 3, 4, 5, 6, 8, 10, 13, 17, 20, 25, 33, 42, 50, 63, 83, 100, 125, 167, 200, 250, 333, 400, 500, 625, 750, 1000, 1250, 1500, 2000, 2500, 3000, 3500, 4000, 4500, 5000>>

\* ... and the standard normal quantile of 1 - PpfQ[i], in units of 10^-4
PpfZ == <<37190, 35401, 34316, 33528, 32905, 32389, 31559, 30902, 30115, 29290, 28782, 28070, 27164, 26356, 25758, 24949, 23954, 23263, 22414, 21272, 20537, 19600, 18344, 17507, 16449, 15341, 14395, 12816, 11503, 10364, 8416, 6745, 5244, 3853, 2533, 1257, 0>>

\* the standard normal cdf at 0.00, 0.05, ..., 4.00, in units of 10^-4
CdfTab == <<5000, 5199, 5398, 5596, 5793, 5987, 6179, 6368, 6554, 6736, 6915, 7088, 7257, 7422, 7580, 7734, 7881, 8023, 8159, 8289, 8413, 8531, 8643, 8749, 8849, 8944, 9032, 9115, 9192, 9265, 9332, 9394, 9452, 9505, 9554, 9599, 9641, 9678, 9713, 9744, 9772, 9798, 9821, 9842, 9861, 9878, 9893, 9906, 9918, 9929, 9938, 9946, 9953, 9960, 9965, 9970, 9974, 9978, 9981, 9984, 9987, 9989, 9990, 9992, 9993, 9994, 9995, 9996, 9997, 9997, 9998, 9998, 9998, 9999, 9999, 9999, 9999, 9999, 10000, 10000, 10000>>

\* quantile of the upper tail q / 10^4, 1 <= q <= 5000, by linear interpolation
PpfUpper(q) ==
    LET i == CHOOSE j \in 1..(Len(PpfQ) - 1) : PpfQ[j] <= q /\ q <= PpfQ[j + 1]
    IN  PpfZ[i] - ((PpfZ[i] - PpfZ[i + 1]) * (q - PpfQ[i])) \div (PpfQ[i + 1] - PpfQ[i])

RECURSIVE NormPpf(_)
\* scipy.stats.norm.ppf: nan outside [0, 1], -inf at 0, +inf at 1
NormPpf(p) ==
    IF ~IsFinite(p) THEN NaN
    ELSE IF FLt(p, Zero) \/ FGt(p, One) THEN NaN
    ELSE IF p = Zero THEN NInf
    ELSE IF p = One THEN PInf
    ELSE IF FLt(p, F(5, -1)) THEN FNeg(NormPpf(FSub(One, p)))
    ELSE F(PpfUpper(Pow10(Prec) - p.m), -Prec)

\* floor(1000 * x) for a finite float 0 <= x < 4
Milli(x) ==
    IF x.e >= -3 THEN x.m * Pow10(x.e + 3)
    ELSE IF -3 - x.e > 9 THEN 0
    ELSE x.m \div Pow10(-3 - x.e)

\* 10^4 * Phi(x) for a finite float x >= 0, by linear interpolation
CdfUpper(x) ==
    IF FGe(x, F(4, 0)) THEN Pow10(Prec)
    ELSE LET i == Milli(x) \div 50
             r == Milli(x) % 50
         IN  CdfTab[i + 1] + ((CdfTab[i + 2] - CdfTab[i + 1]) * r) \div 50

\* scipy.stats.norm.cdf
NormCdf(x) ==
    IF IsNaN(x) THEN NaN
    ELSE IF IsInf(x) THEN (IF x.m > 0 THEN One ELSE Zero)
    ELSE IF x.m >= 0 THEN F(CdfUpper(x), -Prec)
    ELSE F(Pow10(Prec) - CdfUpper(FNeg(x)), -Prec)

(***************************************************************************)
(* Results of calls: a value, or the exception that ended the call         *)
(***************************************************************************)
\* Python's None, and the missing value of a call that raised
None == [cls |-> "none", m |-> 0, e |-> 0]

Ok(v) == [exc |-> "none", val |-> v]

Raise(x) == [exc |-> x, val |-> None]

(***************************************************************************)
(* Alpha functions                                                         *)
(***************************************************************************)
\* obrien_fleming_correction with the quantile multiplied by sqrt(information_fraction)
obrien_fleming_correction_times(information_fraction, alpha) ==
    IF information_fraction = None THEN Raise("TypeError")
    ELSE Ok(FMul(FSub(One, NormCdf(FMul(NormPpf(FSub(One, FDiv(alpha, Two))),
                                         FSqrt(information_fraction)))), Two))

\* numpy.sqrt(None) raises TypeError
obrien_fleming_correction(information_fraction, alpha) ==
    IF information_fraction = None THEN Raise("TypeError")
    ELSE Ok(FMul(FSub(One, NormCdf(FDiv(NormPpf(FSub(One, FDiv(alpha, Two))),
                                         FSqrt(information_fraction)))), Two))

\* the minimum value of an O'Brien-Fleming alpha
MinAlpha == F(1, -13)

\* adjusted_alpha dividing by the number of comparisons whatever the method
adjusted_alpha_always_divides(base_alpha, num_comparisons, multiple_comparisons, sequential_testing, information_fraction) ==
    IF ~(num_comparisons >= 1) THEN Raise("AssertionError")
    ELSE LET alpha == FDiv(base_alpha, F(num_comparisons, 0))
         IN  IF sequential_testing = "O'Brien-Fleming"
             THEN LET obf == obrien_fleming_correction(information_fraction, alpha)
                  IN  IF obf.exc # "none" THEN obf
                      ELSE Ok(PyMax(obf.val, MinAlpha))
             ELSE Ok(alpha)

\* adjusted_alpha without its assertion on num_comparisons
adjusted_alpha_unchecked(base_alpha, num_comparisons, multiple_comparisons, sequential_testing, information_fraction) ==
    IF multiple_comparisons = "Bonferroni" /\ num_comparisons = 0 THEN Raise("ZeroDivisionError")
    ELSE LET alpha == IF multiple_comparisons = "Bonferroni"
                      THEN FDiv(base_alpha, F(num_comparisons, 0))
                      ELSE base_alpha
         IN  IF sequential_testing = "O'Brien-Fleming"
             THEN LET obf == obrien_fleming_correction(information_fraction, alpha)
                  IN  IF obf.exc # "none" THEN obf
                      ELSE Ok(PyMax(obf.val, MinAlpha))
             ELSE Ok(alpha)

adjusted_alpha(base_alpha, num_comparisons, multiple_comparisons, sequential_testing, information_fraction) ==
    IF ~(num_comparisons >= 1) THEN Raise("AssertionError")
    ELSE LET alpha == IF multiple_comparisons = "Bonferroni"
                      THEN FDiv(base_alpha, F(num_comparisons, 0))
                      ELSE base_alpha
         IN  IF sequential_testing = "O'Brien-Fleming"
             THEN LET obf == obrien_fleming_correction(information_fraction, alpha)
                  IN  IF obf.exc # "none" THEN obf
                      ELSE Ok(PyMax(obf.val, MinAlpha))
             ELSE Ok(alpha)

(***************************************************************************)
(* Comparison planning                                                     *)
(***************************************************************************)
RECURSIVE PyMaxOf(_)
\* Python's builtin max over a non-empty sequence
PyMaxOf(s) == IF Len(s) = 1 THEN s[1] ELSE PyMax(PyMaxOf(SubSeq(s, 1, Len(s) - 1)), s[Len(s)])

RECURSIVE PyMinOf(_)
\* Python's builtin min over a non-empty sequence
PyMinOf(s) == IF Len(s) = 1 THEN s[1] ELSE PyMin(PyMinOf(SubSeq(s, 1, Len(s) - 1)), s[Len(s)])

\* design_ratio returning the biggest ratio always
design_ratio_biggest(ratios) == PyMaxOf(ratios)

\* design_ratio returning the reciprocal of the smallest ratio
design_ratio_reciprocal(ratios) ==
    LET biggest_ratio == PyMaxOf(ratios)
        smallest_ratio == PyMinOf(ratios)
    IN  IF FGe(biggest_ratio, FDiv(One, smallest_ratio)) THEN biggest_ratio
        ELSE FDiv(One, smallest_ratio)

design_ratio(ratios) ==
    LET biggest_ratio == PyMaxOf(ratios)
        smallest_ratio == PyMinOf(ratios)
    IN  IF FGe(biggest_ratio, FDiv(One, smallest_ratio)) THEN biggest_ratio
        ELSE smallest_ratio

RECURSIVE Combinations2(_, _)
\* itertools.combinations(range(i, n), 2) restricted to first elements >= i
Combinations2(i, n) ==
    IF i >= n - 1 THEN <<>>
    ELSE [j \in 1..(n - 1 - i) |-> <<i, i + j>>] \o Combinations2(i + 1, n)

\* get_comparison_pairs pairing the first group with itself as well
get_comparison_pairs_from_zero(comparison_type, num_flights) ==
    IF comparison_type = "Compare to first"
    THEN [i \in 1..num_flights |-> <<0, i - 1>>]
    ELSE Combinations2(0, num_flights)

get_comparison_pairs(comparison_type, num_flights) ==
    IF comparison_type = "Compare to first"
    THEN [i \in 1..(num_flights - 1) |-> <<0, i>>]
    ELSE Combinations2(0, num_flights)

(***************************************************************************)
(* Effect sizes (core/calculations.py, "Effect Size")                      *)
(***************************************************************************)
\* arcsin(sqrt(k / 100)) for k = 0..100, in units of 10^-6
ASinSqrtTab == <<
    0, 100167, 141897, 174083, 201358, 225513, 247467, 267763,
    286757, 304693, 321751, 338065, 353742, 368863, 383497, 397699,
    411517, 424989, 438149, 451027, 463648, 476034, 488205, 500180,
    511973, 523599, 535071, 546401, 557599, 568676, 579640, 590500,
    601264, 611940, 622533, 633052, 643501, 653887, 664215, 674491,
    684719, 694905, 705053, 715167, 725253, 735314, 745355, 755380,
    765393, 775397, 785398, 795399, 805404, 815416, 825441, 835482,
    845543, 855629, 865743, 875891, 886077, 896305, 906581, 916909,
    927295, 937744, 948263, 958857, 969532, 980296, 991157, 1002121,
    1013198, 1024396, 1035726, 1047198, 1058824, 1070617, 1082591, 1094763,
    1107149, 1119770, 1132647, 1145808, 1159279, 1173097, 1187299, 1201933,
    1217055, 1232731, 1249046, 1266104, 1284040, 1303033, 1323329, 1345283,
    1369438, 1396713, 1428899, 1470629, 1570796 >>

\* floor(10^6 * x) for a finite float 0 <= x <= 1
Micro(x) ==
    IF x.e >= -6 THEN x.m * Pow10(x.e + 6)
    ELSE IF -6 - x.e > 9 THEN 0
    ELSE x.m \div Pow10(-6 - x.e)

\* the table value at knot i (0-based) moved r / 10^4 of the way to the next knot
ASinSqrtAt(i, r) ==
    IF r = 0 THEN ASinSqrtTab[i + 1]
    ELSE ASinSqrtTab[i + 1] + ((ASinSqrtTab[i + 2] - ASinSqrtTab[i + 1]) * r) \div 10000

\* 10^6 * numpy.arcsin(numpy.sqrt(x)) for a finite float 0 <= x <= 1
ASinSqrt(x) == ASinSqrtAt(Micro(x) \div 10000, Micro(x) % 10000)

\* the arguments for which numpy.arcsin(numpy.sqrt(x)) is not nan
InUnit(x) == IsFinite(x) /\ FLe(Zero, x) /\ FLe(x, One)

\* statsmodels proportion_effectsize(prop1, prop2, method="normal"):
\* 2 * (arcsin(sqrt(prop1)) - arcsin(sqrt(prop2)))
proportion_effectsize_magnitude(prop1, prop2) ==
    IF InUnit(prop1) /\ InUnit(prop2)
    THEN F(2 * Abs(ASinSqrt(prop1) - ASinSqrt(prop2)), -6)
    ELSE NaN

proportion_effectsize(prop1, prop2) ==
    IF InUnit(prop1) /\ InUnit(prop2)
    THEN F(2 * (ASinSqrt(prop1) - ASinSqrt(prop2)), -6)
    ELSE NaN

\* the proportion (mean) an effect of mde moves the baseline to
Shifted(effect_type, baseline_mean, mde) ==
    IF effect_type = "Absolute Effect" THEN FAdd(baseline_mean, mde)
    ELSE FMul(FAdd(One, mde), baseline_mean)

\* binary_effect_size with the baseline as the first proportion
binary_effect_size_baseline_first(effect_type, baseline_mean, mde) ==
    IF effect_type \notin {"Absolute Effect", "Relative Effect"} THEN Raise("AssertionError")
    ELSE Ok(proportion_effectsize(baseline_mean, Shifted(effect_type, baseline_mean, mde)))

binary_effect_size(effect_type, baseline_mean, mde) ==
    IF effect_type \notin {"Absolute Effect", "Relative Effect"} THEN Raise("AssertionError")
    ELSE Ok(proportion_effectsize(Shifted(effect_type, baseline_mean, mde), baseline_mean))

\* normal_effect_size without the check of the baseline standard deviation
normal_effect_size_unchecked(effect_type, baseline_mean, mde, baseline_stdev) ==
    Ok(FDiv(FSub(Shifted(effect_type, baseline_mean, mde), baseline_mean), baseline_stdev))

normal_effect_size(effect_type, baseline_mean, mde, baseline_stdev) ==
    IF baseline_stdev = None THEN Raise("ValueError")
    ELSE IF FLe(baseline_stdev, Zero) THEN Raise("ValueError")
    ELSE Ok(FDiv(FSub(Shifted(effect_type, baseline_mean, mde), baseline_mean), baseline_stdev))

effect_size(outcome_type, effect_type, baseline_mean, mde, baseline_stdev) ==
    IF outcome_type \notin {"binary", "normal"} THEN Raise("AssertionError")
    ELSE IF outcome_type = "binary" THEN binary_effect_size(effect_type, baseline_mean, mde)
    ELSE normal_effect_size(effect_type, baseline_mean, mde, baseline_stdev)


(***************************************************************************)
(* Significance calculations                                               *)
(***************************************************************************)
\* the Cornish-Fisher expansion of the t quantile about the normal quantile z:
\* z + (z^3 + z)/(4 dof) + (5 z^5 + 16 z^3 + 3 z)/(96 dof^2), with z2 = z^2
CornishFisher(z, z2, dof) ==
    FAdd(FAdd(z, FDiv(FDiv(FMul(z, FAdd(z2, One)), F(4, 0)), dof)),
         FDiv(FDiv(FMul(z, FAdd(FAdd(FMul(F(5, 0), FSquare(z2)), FMul(F(16, 0), z2)), F(3, 0))),
                   F(96, 0)),
              FSquare(dof)))

\* the t quantile with dof degrees of freedom whose normal quantile is z
TQuantile(z, dof) ==
    IF IsNaN(dof) \/ IsNaN(z) THEN NaN
    ELSE IF FLe(dof, Zero) THEN NaN
    ELSE IF IsInf(dof) \/ IsInf(z) THEN z
    ELSE CornishFisher(z, FSquare(z), dof)

\* scipy.stats.t.ppf: nan for nan or non-positive degrees of freedom, the normal
\* quantile for infinitely many
TPpf(q, dof) == TQuantile(NormPpf(q), dof)

binomial_standard_error(proportion, sample_size) ==
    FSqrt(FDiv(FMul(proportion, FSub(One, proportion)), F(sample_size, 0)))

\* the standard error of the difference of two groups: the delta method error
\* of (b - a) / a for a relative effect, the root of the sum of squares otherwise
StdErrDiff(effect_type, a, b, std_err_1, std_err_2) ==
    IF effect_type = "Relative Effect"
    THEN FSqrt(FAdd(FMul(FDiv(One, FSquare(a)), FSquare(std_err_2)),
                    FMul(FDiv(FSquare(b), FSquare(FSquare(a))), FSquare(std_err_1))))
    ELSE FSqrt(FAdd(FSquare(std_err_1), FSquare(std_err_2)))

\* the difference b - a, relative to a for a relative effect
EffectDiff(effect_type, a, b) ==
    IF effect_type = "Relative Effect" THEN FDiv(FSub(b, a), a) ELSE FSub(b, a)

\* the dictionary both confidence interval functions return
ConfidenceInterval(point_estimate, margin_of_error) ==
    [point_estimate |-> point_estimate,
     ci_lower |-> FSub(point_estimate, margin_of_error),
     ci_upper |-> FAdd(point_estimate, margin_of_error)]

binomial_confidence_interval(prop1, n1, prop2, n2, confidence, effect_type) ==
    ConfidenceInterval(
        EffectDiff(effect_type, prop1, prop2),
        FMul(NormPpf(FDiv(FAdd(One, confidence), Two)),
             StdErrDiff(effect_type, prop1, prop2,
                        binomial_standard_error(prop1, n1),
                        binomial_standard_error(prop2, n2))))

\* numerator / denominator of the Welch-Satterthwaite equation for the
\* variances of the means v1 = stdev1^2 / n1 and v2 = stdev2^2 / n2
WelchSatterthwaite(v1, n1, v2, n2) ==
    FDiv(FSquare(FAdd(v1, v2)),
         FAdd(FDiv(FSquare(v1), F(n1 - 1, 0)), FDiv(FSquare(v2), F(n2 - 1, 0))))

dof_welch_satterthwaithe(stdev1, n1, stdev2, n2) ==
    WelchSatterthwaite(FDiv(FSquare(stdev1), F(n1, 0)), n1,
                       FDiv(FSquare(stdev2), F(n2, 0)), n2)

normal_confidence_interval(mean1, stdev1, n1, mean2, stdev2, n2, confidence, effect_type) ==
    ConfidenceInterval(
        EffectDiff(effect_type, mean1, mean2),
        FMul(TPpf(FDiv(FAdd(One, confidence), Two),
                  dof_welch_satterthwaithe(stdev1, n1, stdev2, n2)),
             StdErrDiff(effect_type, mean1, mean2,
                        FDiv(stdev1, FSqrt(F(n1, 0))),
                        FDiv(stdev2, FSqrt(F(n2, 0))))))

\* the name of a comparison: f"{group2_name} - {group1_name}"
ComparisonName(group1_name, group2_name) == <<group2_name, " - ", group1_name>>

\* the confidence interval of the comparison of group1 with group2
\* DiffSummary at the confidence 0.95 whatever alpha is
DiffSummaryFixedConfidence(group1, group2, alpha, outcome_type, effect_type) ==
    IF outcome_type = "binary"
    THEN binomial_confidence_interval(
             FDiv(F(group1.num_successes, 0), F(group1.sample_size, 0)),
             group1.sample_size,
             FDiv(F(group2.num_successes, 0), F(group2.sample_size, 0)),
             group2.sample_size,
             F(95, -2), effect_type)
    ELSE normal_confidence_interval(
             group1.mean, group1.stddev, group1.sample_size,
             group2.mean, group2.stddev, group2.sample_size,
             F(95, -2), effect_type)

DiffSummary(group1, group2, alpha, outcome_type, effect_type) ==
    IF outcome_type = "binary"
    THEN binomial_confidence_interval(
             FDiv(F(group1.num_successes, 0), F(group1.sample_size, 0)),
             group1.sample_size,
             FDiv(F(group2.num_successes, 0), F(group2.sample_size, 0)),
             group2.sample_size,
             FSub(One, alpha), effect_type)
    ELSE normal_confidence_interval(
             group1.mean, group1.stddev, group1.sample_size,
             group2.mean, group2.stddev, group2.sample_size,
             FSub(One, alpha), effect_type)

\* the row made of a comparison's confidence interval
DiffSummaryRow(group1, group2, diff_summary) ==
    [group_name |-> ComparisonName(group1.group_name, group2.group_name),
     group1_name |-> group1.group_name,
     group2_name |-> group2.group_name,
     point_estimate |-> diff_summary.point_estimate,
     ci_lower |-> diff_summary.ci_lower,
     ci_upper |-> diff_summary.ci_upper]

\* the row for the groups group1 and group2 of a pair
GroupsRow(group1, group2, alpha, outcome_type, effect_type) ==
    DiffSummaryRow(group1, group2, DiffSummary(group1, group2, alpha, outcome_type, effect_type))

\* DifferenceRow with the two groups of the pair exchanged
DifferenceRowExchanged(experiment_data_summary, alpha, pair, outcome_type, effect_type) ==
    GroupsRow(experiment_data_summary[pair[2] + 1], experiment_data_summary[pair[1] + 1],
              alpha, outcome_type, effect_type)

\* one row of group_differences: the comparison of rows pair[1] and pair[2]
\* (0-based positions) of the summary table
DifferenceRow(experiment_data_summary, alpha, pair, outcome_type, effect_type) ==
    GroupsRow(experiment_data_summary[pair[1] + 1], experiment_data_summary[pair[2] + 1],
              alpha, outcome_type, effect_type)

\* one row for each pair, concatenated in the order of the pairs
group_differences(experiment_data_summary, alpha, comparison_pairs, outcome_type, effect_type) ==
    [i \in 1..Len(comparison_pairs) |->
        DifferenceRow(experiment_data_summary, alpha, comparison_pairs[i], outcome_type, effect_type)]

\* numpy.round(x, decimals): to the nearest multiple of 10^-decimals, ties to even
FRound(x, decimals) ==
    IF ~IsFinite(x) THEN x
    ELSE IF x.e >= -decimals THEN x
    ELSE IF -decimals - x.e > 9 THEN Zero
    ELSE F(Sign(x.m) * RoundDiv(Abs(x.m), Pow10(-decimals - x.e)), -decimals)

\* one row of format_outcomes_for_plots
FormatRow(row, multiplier, decimal_places) ==
    [row EXCEPT !.point_estimate = FRound(FMul(row.point_estimate, multiplier), decimal_places),
                !.ci_lower = FRound(FMul(row.ci_lower, multiplier), decimal_places),
                !.ci_upper = FRound(FMul(row.ci_upper, multiplier), decimal_places)]

format_outcomes_for_plots(experiment_results, outcome_type, effect_type) ==
    LET percent == outcome_type = "binary" \/ effect_type = "Relative Effect"
        decimal_places == IF percent THEN 2 ELSE 4
        multiplier == IF percent THEN F(100, 0) ELSE One
    IN  [i \in 1..Len(experiment_results) |->
            FormatRow(experiment_results[i], multiplier, decimal_places)]

\* numpy.clip(x, 0, 1)
Clip01(x) == IF FLt(x, Zero) THEN Zero ELSE IF FGt(x, One) THEN One ELSE x

\* the row of a group: its estimate and the interval of half-width dist around
\* it, clipped to [0, 1] for a proportion
ResponseInterval(group_name, point_estimate, dist, clipped) ==
    [group_name |-> group_name,
     point_estimate |-> point_estimate,
     ci_lower |-> IF clipped THEN Clip01(FSub(point_estimate, dist)) ELSE FSub(point_estimate, dist),
     ci_upper |-> IF clipped THEN Clip01(FAdd(point_estimate, dist)) ELSE FAdd(point_estimate, dist)]

\* statsmodels proportion_confint(count, nobs, alpha, method="normal") with the
\* proportion q = count / nobs
ProportionConfint(group_name, q, nobs, alpha) ==
    ResponseInterval(group_name, q,
                     FMul(NormPpf(FSub(One, FDiv(alpha, Two))), binomial_standard_error(q, nobs)),
                     TRUE)

\* scipy.stats.norm.interval(confidence, loc, scale)
NormInterval(group_name, confidence, loc, scale) ==
    ResponseInterval(group_name, loc,
                     FMul(NormPpf(FDiv(FAdd(One, confidence), Two)), scale),
                     FALSE)

\* one row of group_responses
ResponseRow(outcome_type, group, alpha) ==
    IF outcome_type = "binary"
    THEN ProportionConfint(group.group_name,
                           FDiv(F(group.num_successes, 0), F(group.sample_size, 0)),
                           group.sample_size, alpha)
    ELSE NormInterval(group.group_name, FSub(One, alpha), group.mean,
                      FDiv(group.stddev, FSqrt(F(group.sample_size, 0))))

group_responses(outcome_type, experiment_data_summary, alpha) ==
    [i \in 1..Len(experiment_data_summary) |->
        ResponseRow(outcome_type, experiment_data_summary[i], alpha)]

(***************************************************************************)
(* Conversion of an effect size to a binary effect (core/calculations.py)  *)
(***************************************************************************)
\* the value returned for the clipped second proportion prop2; round(x, 2) of
\* a numpy float never raises
ConvertedEffect(effect_type, prop1, prop2) ==
    IF effect_type = "Absolute Effect"
    THEN FRound(FMul(FSub(prop2, prop1), F(100, 0)), 2)
    ELSE FRound(FMul(FSub(FDiv(prop2, prop1), One), F(100, 0)), 2)

convert_effect_size_unclipped(effect_type, size, prop1) ==
    ConvertedEffect(effect_type, prop1,
                    FAdd(prop1, FMul(size, FSqrt(FMul(prop1, FSub(One, prop1))))))

convert_effect_size_for_binary_outcome(effect_type, size, prop1) ==
    ConvertedEffect(effect_type, prop1,
                    Clip01(FAdd(prop1, FMul(size, FSqrt(FMul(prop1, FSub(One, prop1)))))))

(***************************************************************************)
(* Power calculations (core/calculations.py).  statsmodels'                *)
(* tt_ind_solve_power finds the root of the power of the two-sample t-test *)
(* of group sizes nobs1 and ratio * nobs1; it is modelled by the root of   *)
(* the normal approximation of that power with the correction of the       *)
(* quantile of the t distribution,                                         *)
(*   nobs1 = (1 + 1 / ratio) * ((z(1 - alpha/2) + z(power)) / d)^2         *)
(*           + z(1 - alpha/2)^2 / (2 * (1 + ratio))                        *)
(***************************************************************************)
\* ceil of a finite float
Ceil(x) == IF x.e >= 0 THEN x.m * Pow10(x.e) ELSE IF -x.e > 9 THEN (IF x.m > 0 THEN 1 ELSE 0) ELSE -((-x.m) \div Pow10(-x.e))

\* math.ceil of the result of a call: ValueError for nan, OverflowError for
\* an infinity
PyCeil(r) ==
    IF r.exc # "none" THEN r
    ELSE IF IsNaN(r.val) THEN Raise("ValueError")
    ELSE IF IsInf(r.val) THEN Raise("OverflowError")
    ELSE Ok(Ceil(r.val))

\* z(1 - alpha / 2) + z(power), for the two-sided alternative
ZSum(alpha, power) == FAdd(NormPpf(FSub(One, FDiv(alpha, Two))), NormPpf(power))

TCorrection(alpha, ratio) ==
    FDiv(FSquare(NormPpf(FSub(One, FDiv(alpha, Two)))), FMul(Two, FAdd(One, ratio)))

SolveNobs1IgnoringRatio(size, alpha, power, ratio) ==
    FAdd(FMul(Two, FSquare(FDiv(ZSum(alpha, power), size))), TCorrection(alpha, One))

SolveNobs1Product(size, alpha, power, ratio) ==
    FAdd(FMul(FAdd(One, FDiv(One, ratio)), FSquare(FMul(ZSum(alpha, power), size))),
         TCorrection(alpha, ratio))

\* the group 1 size at which the test has the given power
SolveNobs1(size, alpha, power, ratio) ==
    FAdd(FMul(FAdd(One, FDiv(One, ratio)), FSquare(FDiv(ZSum(alpha, power), size))),
         TCorrection(alpha, ratio))

\* the effect size at which the test has the given power
SolveEffectSize(nobs1, alpha, power, ratio) ==
    FMul(ZSum(alpha, power),
         FSqrt(FDiv(FAdd(One, FDiv(One, ratio)), FSub(nobs1, TCorrection(alpha, ratio)))))

tt_ind_solve_power_unchecked(size, nobs1, alpha, power, ratio) ==
    IF nobs1 = None
    THEN Ok(SolveNobs1(size, alpha, power, ratio))
    ELSE Ok(SolveEffectSize(nobs1, alpha, power, ratio))

\* statsmodels.stats.power.tt_ind_solve_power with exactly one of effect_size
\* and nobs1 None: solve_power refuses an effect size of 0 with a ValueError
tt_ind_solve_power(size, nobs1, alpha, power, ratio) ==
    IF nobs1 = None
    THEN IF FEq(size, Zero)
         THEN Raise("ValueError")
         ELSE Ok(SolveNobs1(size, alpha, power, ratio))
    ELSE Ok(SolveEffectSize(nobs1, alpha, power, ratio))

n1_sample_size(size, alpha, power, ratio) ==
    PyCeil(tt_ind_solve_power(size, None, alpha, power, ratio))

minimum_detectable_effect_size(nobs1, power, alpha, ratio) ==
    tt_ind_solve_power(None, nobs1, alpha, power, ratio)

(***************************************************************************)
(* Sample ratio mismatch (core/calculations.py)                            *)
(***************************************************************************)
\* exp(-j / 100) for j = 0 .. 100, in units of 10^-4
ExpNegTab == <<10000, 9900, 9802, 9704, 9608, 9512, 9418, 9324, 9231, 9139, 9048, 8958, 8869, 8781, 8694, 8607, 8521, 8437, 8353, 8270, 8187, 8106, 8025, 7945, 7866, 7788, 7711, 7634, 7558, 7483, 7408, 7334, 7261, 7189, 7118, 7047, 6977, 6907, 6839, 6771, 6703, 6637, 6570, 6505, 6440, 6376, 6313, 6250, 6188, 6126, 6065, 6005, 5945, 5886, 5827, 5769, 5712, 5655, 5599, 5543, 5488, 5434, 5379, 5326, 5273, 5220, 5169, 5117, 5066, 5016, 4966, 4916, 4868, 4819, 4771, 4724, 4677, 4630, 4584, 4538, 4493, 4449, 4404, 4360, 4317, 4274, 4232, 4190, 4148, 4107, 4066, 4025, 3985, 3946, 3906, 3867, 3829, 3791, 3753, 3716, 3679>>

\* exp(-f / 1000) for 0 <= f < 1000, by linear interpolation
ExpNegFrac(i, r) == F(ExpNegTab[i + 1] - ((ExpNegTab[i + 1] - ExpNegTab[i + 2]) * r) \div 10, -4)

RECURSIVE ExpNegInt(_)
\* exp(-k) for a natural number k, by repeated squaring
ExpNegInt(k) ==
    IF k = 0 THEN One
    ELSE IF k % 2 = 1 THEN FMul(F(3679, -4), ExpNegInt(k - 1))
    ELSE FSquare(ExpNegInt(k \div 2))

\* numpy.exp(-y) for a finite float y >= 0; float64 underflows to 0 past 745
ExpNeg(y) ==
    IF FGt(y, F(745, 0)) THEN Zero
    ELSE FMul(ExpNegInt(Milli(y) \div 1000),
              ExpNegFrac((Milli(y) % 1000) \div 10, (Milli(y) % 1000) % 10))

RECURSIVE Chi2Term(_, _)
\* (x/2)^(j/2) * exp(-x/2) / Gamma(j/2 + 1), the difference of the survival
\* functions with j + 2 and with j degrees of freedom
Chi2Term(x, j) ==
    IF j = 1 THEN FMul(FSqrt(FDiv(FMul(Two, x), F(3142, -3))), ExpNeg(FDiv(x, Two)))
    ELSE IF j = 2 THEN FMul(FDiv(x, Two), ExpNeg(FDiv(x, Two)))
    ELSE FMul(Chi2Term(x, j - 2), FDiv(x, F(j, 0)))

RECURSIVE Chi2Sf(_, _)
\* scipy.stats.chi2.sf(x, df) for x >= 0 and df >= 1
Chi2Sf(x, df) ==
    IF IsNaN(x) THEN NaN
    ELSE IF df = 1 THEN FMul(Two, FSub(One, NormCdf(FSqrt(x))))
    ELSE IF df = 2 THEN ExpNeg(FDiv(x, Two))
    ELSE FAdd(Chi2Sf(x, df - 2), Chi2Term(x, df - 2))

RECURSIVE TotalSamples(_, _)
\* sample_size_data["Sample Size"].sum(), over the first n rows
TotalSamples(sample_size_data, n) ==
    IF n = 0 THEN 0 ELSE TotalSamples(sample_size_data, n - 1) + sample_size_data[n].sample_size

\* (f_obs - f_exp)^2 / f_exp of one cell
CellTerm(observed, expected) == FDiv(FSquare(FSub(observed, expected)), expected)

\* the cell of a group: its sample size against nobs * value
CountCell(group, nobs) ==
    CellTerm(F(group.sample_size, 0), FMul(F(nobs, 0), group.expected_proportion))

\* the second cell proportions_chisquare gives a group: nobs - count against
\* nobs * (1 - value)
RestCell(group, nobs) ==
    CellTerm(F(nobs - group.sample_size, 0),
             FMul(F(nobs, 0), FSub(One, group.expected_proportion)))

RECURSIVE Chi2Stat(_, _, _)
\* the statistic of scipy.stats.chisquare over the 2 * n cells of the table
\* of proportions_chisquare
Chi2Stat(sample_size_data, nobs, n) ==
    IF n = 0 THEN Zero
    ELSE FAdd(Chi2Stat(sample_size_data, nobs, n - 1),
              FAdd(CountCell(sample_size_data[n], nobs), RestCell(sample_size_data[n], nobs)))

\* statsmodels proportions_chisquare(count, nobs, value)[1]: chisquare over
\* 2 * n_rows cells with ddof = n_rows - 1, so n_rows degrees of freedom
proportions_chisquare(sample_size_data, nobs) ==
    Chi2Sf(Chi2Stat(sample_size_data, nobs, Len(sample_size_data)), Len(sample_size_data))

srm_pvalue(sample_size_data) ==
    proportions_chisquare(sample_size_data, TotalSamples(sample_size_data, Len(sample_size_data)))

(***************************************************************************)
(* Validation (core/validation.py)                                         *)
(***************************************************************************)
\* pandas Series.min() and .max(): nan for an empty column
SeriesMin(column) == IF Len(column) = 0 THEN NaN ELSE PyMinOf(column)

SeriesMax(column) == IF Len(column) = 0 THEN NaN ELSE PyMaxOf(column)

RECURSIVE SeriesSum(_)
\* pandas Series.sum(): 0 for an empty column
SeriesSum(column) ==
    IF Len(column) = 0 THEN Zero
    ELSE FAdd(SeriesSum(SubSeq(column, 1, Len(column) - 1)), column[Len(column)])

\* valid_traffic_allocation accepting an allocation of 100
valid_traffic_allocation_inclusive(traffic_allocation) ==
    /\ FGt(SeriesMin(traffic_allocation), Zero)
    /\ FLe(SeriesMax(traffic_allocation), F(100, 0))
    /\ FLe(SeriesSum(traffic_allocation), F(100, 0))

\* traffic_allocation is the column "Traffic Allocation (%)"
valid_traffic_allocation(traffic_allocation) ==
    /\ FGt(SeriesMin(traffic_allocation), Zero)
    /\ FLt(SeriesMax(traffic_allocation), F(100, 0))
    /\ FLe(SeriesSum(traffic_allocation), F(100, 0))

valid_summary_data(summary_data, outcome_type) ==
    LET all_samples_valid == \A i \in 1..Len(summary_data) : summary_data[i].sample_size > 0
    IN  IF outcome_type = "binary"
        THEN all_samples_valid
             /\ \A i \in 1..Len(summary_data) : summary_data[i].num_successes >= 0
        ELSE all_samples_valid
             /\ (\A i \in 1..Len(summary_data) : FGe(summary_data[i].mean, Zero))
             /\ (\A i \in 1..Len(summary_data) : FGe(summary_data[i].stddev, Zero))

(***************************************************************************)
(* Power curves (core/calculations.py)                                     *)
(***************************************************************************)
\* math.ceil(n * x) of an integer n and a finite float x, without rounding of
\* the product
CeilMul(n, x) ==
    IF x.e >= 0 THEN n * x.m * Pow10(x.e) ELSE -((-(n * x.m)) \div Pow10(-x.e))

\* the exception of the first failed call of a list comprehension, "none"
\* when no call failed
FirstFailure(results) ==
    IF \A i \in DOMAIN results : results[i].exc = "none" THEN "none"
    ELSE results[CHOOSE i \in DOMAIN results :
                    /\ results[i].exc # "none"
                    /\ \A j \in DOMAIN results : results[j].exc # "none" => i <= j].exc

\* list(numpy.ceil(nobs1 * sum(flight_ratios)))
TotalObs(results, total_ratio) == [i \in DOMAIN results |-> CeilMul(results[i].val, total_ratio)]

\* what a function returns after the list comprehension results
ListResult(results, values) ==
    IF FirstFailure(results) # "none" THEN Raise(FirstFailure(results)) ELSE Ok(values)

N1SampleSizes(size, power_range, alpha, limiting_ratio) ==
    [i \in DOMAIN power_range |-> n1_sample_size(size, alpha, power_range[i], limiting_ratio)]

\* sample_size_list multiplying by the first flight ratio only
sample_size_list_first_ratio(size, power_range, alpha, limiting_ratio, flight_ratios) ==
    ListResult(N1SampleSizes(size, power_range, alpha, limiting_ratio),
               TotalObs(N1SampleSizes(size, power_range, alpha, limiting_ratio), flight_ratios[1]))

sample_size_list(size, power_range, alpha, limiting_ratio, flight_ratios) ==
    ListResult(N1SampleSizes(size, power_range, alpha, limiting_ratio),
               TotalObs(N1SampleSizes(size, power_range, alpha, limiting_ratio),
                        SeriesSum(flight_ratios)))

convert_effect_size_for_normal_outcome(effect_type, size, baseline_mean, baseline_stdev) ==
    IF effect_type = "Absolute Effect"
    THEN FRound(FMul(size, baseline_stdev), 3)
    ELSE FRound(FMul(F(100, 0), FDiv(FMul(size, baseline_stdev), baseline_mean)), 2)

DetectableEffectSizes(nobs1, power_range, alpha, limiting_ratio) ==
    [i \in DOMAIN power_range |->
        minimum_detectable_effect_size(nobs1, power_range[i], alpha, limiting_ratio)]

\* the vectorised conversion of the effect sizes
ConvertedEffects(results, outcome_type, effect_type, baseline_mean, baseline_stdev) ==
    [i \in DOMAIN results |->
        IF outcome_type = "binary"
        THEN convert_effect_size_for_binary_outcome(effect_type, results[i].val, baseline_mean)
        ELSE convert_effect_size_for_normal_outcome(effect_type, results[i].val,
                                                    baseline_mean, baseline_stdev)]

effect_size_list(nobs1, power_range, alpha, limiting_ratio, outcome_type, effect_type, baseline_mean, baseline_stdev) ==
    IF outcome_type \notin {"binary", "normal"} THEN Raise("AssertionError")
    ELSE ListResult(DetectableEffectSizes(nobs1, power_range, alpha, limiting_ratio),
                    ConvertedEffects(DetectableEffectSizes(nobs1, power_range, alpha, limiting_ratio),
                                     outcome_type, effect_type, baseline_mean, baseline_stdev))

\* a is the record of the arguments of plot_x_data
plot_x_data(a) ==
    IF a.calculation_type \notin {"Minimum Sample Size", "Minimum Detectable Effect"}
    THEN Raise("AssertionError")
    ELSE IF a.calculation_type = "Minimum Sample Size"
    THEN sample_size_list(a.effect_size, a.power_range, a.alpha, a.limiting_ratio, a.flight_ratios)
    ELSE effect_size_list(a.nobs1, a.power_range, a.alpha, a.limiting_ratio, a.outcome_type,
                          a.effect_type, a.baseline_mean, a.baseline_stdev)

(***************************************************************************)
(* The significance page (pages/significance.py)                           *)
(***************************************************************************)
\* the verdict written for one row of the formatted difference results
significance_verdict(ci_lower, ci_upper) ==
    IF FLe(ci_lower, Zero) /\ FLe(Zero, ci_upper) THEN "is NOT significant"
    ELSE "is significant"

\* the verdicts written for the rows of the formatted difference results
Verdicts(difference_results) ==
    [i \in 1..Len(difference_results) |->
        significance_verdict(difference_results[i].ci_lower, difference_results[i].ci_upper)]

\* what the page shows for valid summary data
ShownResults(alpha, difference_results, responses) ==
    [shown |-> "results",
     alpha |-> alpha,
     difference_results |-> difference_results,
     significance |-> Verdicts(difference_results),
     group_responses |-> responses]

\* the second column of the page: the results for valid summary data, else the
\* error message.  alpha is the outcome of adjusted_alpha, made before it.
PageResults(alpha, summary_data_is_valid, experiment_summary, comparison_pairs, outcome_type, effect_type) ==
    IF alpha.exc # "none" THEN alpha
    ELSE IF summary_data_is_valid
    THEN Ok(ShownResults(
                alpha.val,
                format_outcomes_for_plots(
                    group_differences(experiment_summary, alpha.val, comparison_pairs,
                                      outcome_type, effect_type),
                    outcome_type, effect_type),
                format_outcomes_for_plots(
                    group_responses(outcome_type, experiment_summary, alpha.val),
                    outcome_type, effect_type)))
    ELSE Ok([shown |-> "Experiment Summary Error"])

\* the page once the comparison pairs and the information fraction are known
PageForPairs(outcome_type, experiment_summary, effect_type, significance_level, comparison_pairs, mtc_type, sequential_testing, information_fraction) ==
    PageResults(adjusted_alpha(FDiv(significance_level, F(100, 0)), Len(comparison_pairs),
                               mtc_type, sequential_testing, information_fraction),
                valid_summary_data(experiment_summary, outcome_type),
                experiment_summary, comparison_pairs, outcome_type, effect_type)

\* One run of the page script.  experiment_summary is the table after dropna(),
\* experiment_progress the row of the duration editor.  The outcome is the
\* exception that ended the script, or what the page shows: the error message,
\* or the formatted differences, their verdicts and the formatted responses.
show_significance(outcome_type, experiment_summary, effect_type, significance_level, comparison_type, mtc_type, sequential_testing, experiment_progress) ==
    PageForPairs(outcome_type, experiment_summary, effect_type, significance_level,
                 get_comparison_pairs(comparison_type, Len(experiment_summary)),
                 mtc_type, sequential_testing,
                 IF sequential_testing # "None"
                 THEN FDiv(F(experiment_progress.days_passed, 0),
                           F(experiment_progress.total_duration, 0))
                 ELSE None)

(***************************************************************************)
(* The power page (pages/power.py)                                         *)
(***************************************************************************)
minimum_detectable_effect(outcome_type, effect_type, mde_input) ==
    IF outcome_type = "normal" /\ effect_type = "Absolute Effect"
    THEN mde_input
    ELSE FDiv(mde_input, F(100, 0))

\* the allocation of every group relative to the first group, or to the
\* largest one when all pairs are compared
CalculationRatios(comparison_type, allocation) ==
    [i \in DOMAIN allocation |->
        FDiv(allocation[i], IF comparison_type = "Compare to first"
                            THEN allocation[1] ELSE SeriesMax(allocation))]

\* the ratio all sample size calculations depend on
LimitingRatio(comparison_type, allocation) ==
    IF comparison_type = "Compare to first"
    THEN design_ratio(CalculationRatios(comparison_type, allocation))
    ELSE FDiv(SeriesMin(allocation), FAdd(SeriesMax(allocation), SeriesMin(allocation)))

RECURSIVE SamplesSum(_, _)
\* the sum of the first n entries of the column "Minimum Samples Required"
SamplesSum(samples, n) == IF n = 0 THEN 0 ELSE SamplesSum(samples, n - 1) + samples[n]

\* numpy.ceil(calculation_ratios * group1_samples_required)
MinimumSamplesRequired(calculation_ratios, n1) ==
    [i \in DOMAIN calculation_ratios |-> CeilMul(n1, calculation_ratios[i])]

\* numpy.linspace(0.1, 0.99, 90), the power grid of the power page
PowerGrid == [i \in 1..90 |-> F(9 + i, -2)]

\* the arguments the page gives to plot_x_data
PlotArguments(a, alpha, ratio, calculation_ratios, nobs1, size) ==
    [calculation_type |-> a.calculation_type, power_range |-> PowerGrid, nobs1 |-> nobs1,
     effect_size |-> size, alpha |-> alpha, limiting_ratio |-> ratio,
     flight_ratios |-> calculation_ratios, outcome_type |-> a.outcome_type,
     effect_type |-> a.effect_type, baseline_mean |-> a.baseline_mean,
     baseline_stdev |-> a.baseline_stdev]

\* what the page shows once the power curve is there
PowerShown(n1, samples, total, mde_estimate, plot) ==
    IF plot.exc # "none" THEN plot
    ELSE Ok([shown |-> "results",
             group1_samples_required |-> n1,
             minimum_samples_required |-> samples,
             total_samples_required |-> total,
             mde_estimate |-> mde_estimate,
             plot_x_data |-> plot.val])

\* the sample sizes of the groups from that of group 1, and the power curve
SamplesFromGroup1(a, alpha, ratio, calculation_ratios, size, n1) ==
    IF n1.exc # "none" THEN n1
    ELSE PowerShown(n1.val, MinimumSamplesRequired(calculation_ratios, n1.val),
                    SamplesSum(MinimumSamplesRequired(calculation_ratios, n1.val),
                               Len(calculation_ratios)),
                    None,
                    plot_x_data(PlotArguments(a, alpha, ratio, calculation_ratios, None, size)))

\* calculation type "Minimum Sample Size"; size is the outcome of effect_size
SampleSizeResults(a, alpha, ratio, calculation_ratios, size) ==
    IF size.exc # "none" THEN size
    ELSE SamplesFromGroup1(a, alpha, ratio, calculation_ratios, size.val,
                           n1_sample_size(size.val, alpha, FDiv(a.power_level, F(100, 0)), ratio))

\* the detectable effect size in the units of the outcome
ConvertedEstimate(a, mde_estimate) ==
    IF a.outcome_type = "normal"
    THEN convert_effect_size_for_normal_outcome(a.effect_type, mde_estimate,
                                                a.baseline_mean, a.baseline_stdev)
    ELSE convert_effect_size_for_binary_outcome(a.effect_type, mde_estimate, a.baseline_mean)

\* the detectable effect from the sample size of group 1, and the power curve
EffectFromGroup1(a, alpha, ratio, calculation_ratios, nobs1, mde_estimate) ==
    IF mde_estimate.exc # "none" THEN mde_estimate
    ELSE PowerShown(None, None, None, ConvertedEstimate(a, mde_estimate.val),
                    plot_x_data(PlotArguments(a, alpha, ratio, calculation_ratios, nobs1, None)))

\* calculation type "Minimum Detectable Effect"
DetectableEffectResults(a, alpha, ratio, calculation_ratios, nobs1) ==
    EffectFromGroup1(a, alpha, ratio, calculation_ratios, nobs1,
                     minimum_detectable_effect_size(nobs1, FDiv(a.power_level, F(100, 0)),
                                                    alpha, ratio))

\* the calculations of the second column
PowerCalculations(a, alpha, ratio, calculation_ratios) ==
    IF a.calculation_type = "Minimum Sample Size"
    THEN SampleSizeResults(a, alpha, ratio, calculation_ratios,
                           effect_size(a.outcome_type, a.effect_type, a.baseline_mean,
                                       minimum_detectable_effect(a.outcome_type, a.effect_type,
                                                                 a.mde_level),
                                       a.baseline_stdev))
    ELSE DetectableEffectResults(a, alpha, ratio, calculation_ratios,
                                 FDiv(a.available_sample_size, SeriesSum(calculation_ratios)))

\* the second column without its test of the traffic allocation
PowerResultsUngated(alpha, traffic_allocation_is_valid, a) ==
    IF alpha.exc # "none" THEN alpha
    ELSE PowerCalculations(a, alpha.val,
                           LimitingRatio(a.comparison_type, a.sample_split),
                           CalculationRatios(a.comparison_type, a.sample_split))

\* the second column of the page: the calculations for a valid traffic
\* allocation, else the error message.  alpha is the outcome of adjusted_alpha,
\* made in the first column.
PowerResults(alpha, traffic_allocation_is_valid, a) ==
    IF alpha.exc # "none" THEN alpha
    ELSE IF traffic_allocation_is_valid
    THEN PowerCalculations(a, alpha.val,
                           LimitingRatio(a.comparison_type, a.sample_split),
                           CalculationRatios(a.comparison_type, a.sample_split))
    ELSE Ok([shown |-> "Sample Split Error"])

\* One run of the page script.  a holds the values of the widgets:
\* sample_split is the column "Traffic Allocation (%)" of the table, all of its
\* rows complete; baseline_mean is the baseline success rate / 100 for a binary
\* outcome.  adjusted_alpha is called without sequential testing.
show_power(a) ==
    PowerResults(adjusted_alpha(FDiv(a.significance_level, F(100, 0)),
                                Len(get_comparison_pairs(a.comparison_type,
                                                         Len(a.sample_split))),
                                a.mtc_type, "None", None),
                 valid_traffic_allocation(a.sample_split), a)

(***************************************************************************)
(* The sample ratio mismatch page (pages/srm_test.py)                      *)
(***************************************************************************)
\* the column "Expected Proportion (%)"
ExpectedPercents(summary_data) ==
    [i \in DOMAIN summary_data |-> summary_data[i].expected_proportion_pct]

valid_srm_data(summary_data) ==
    /\ \A i \in DOMAIN summary_data : summary_data[i].sample_size > 0
    /\ FGt(SeriesMin(ExpectedPercents(summary_data)), Zero)
    /\ FLt(SeriesMax(ExpectedPercents(summary_data)), F(100, 0))

\* sample_sizes["Expected Proportion"] = sample_sizes["Expected Proportion (%)"] / 100
WithExpectedProportion(sample_sizes) ==
    [i \in DOMAIN sample_sizes |->
        [sample_size |-> sample_sizes[i].sample_size,
         expected_proportion |-> FDiv(sample_sizes[i].expected_proportion_pct, F(100, 0))]]

\* the text of the result for a p-value
SrmShown(p_value, threshold) ==
    [shown |-> "results",
     p_value |-> p_value,
     formatted_p_val |-> IF FLt(p_value, F(1, -5)) THEN <<"P value < ", F(1, -5)>>
                         ELSE <<"P value = ", FRound(p_value, 5)>>,
     mismatch |-> ~FGt(p_value, threshold)]

\* One run of the page script; sample_sizes is the table after dropna().
show_srm_test(sample_sizes, threshold) ==
    IF valid_srm_data(sample_sizes)
    THEN Ok(SrmShown(srm_pvalue(WithExpectedProportion(sample_sizes)), threshold))
    ELSE Ok([shown |-> "Sample Input Error"])

(***************************************************************************)
(* The calls made on the calculation core.  op names the function that was *)
(* called last, args holds its arguments and ret its outcome.  The core     *)
(* keeps no state between calls: a call starts from the idle state and     *)
(* Return hands the outcome to the caller and goes back to it.             *)
(***************************************************************************)
VARIABLES op, args, ret

vars == <<op, args, ret>>

\* largest number of groups (flights) of an experiment
MaxFlights == 5

\* largest number of comparisons passed to adjusted_alpha
MaxComparisons == 3

\* longest sequence of ratios passed to design_ratio
MaxRatios == 3

ComparisonTypes == {"Compare to first", "Compare all pairs"}

MTCTypes == {"Bonferroni", "None"}

SequentialTypes == {"O'Brien-Fleming", "None"}

\* 10%, 5%, 1% and a significance level below the O'Brien-Fleming floor
BaseAlphas == {F(1, -1), F(5, -2), F(1, -2), F(1, -14)}

\* absent, negative, zero, inside (0, 1] and above 1
InformationFractions == {None, F(-5, -1), Zero, F(25, -2), F(5, -1), F(75, -2), One, F(15, -1)}

RatioValues == {F(25, -2), F(5, -1), F(75, -2), One, FDiv(F(4, 0), F(3, 0)), Two, F(4, 0)}

\* largest number of rows of a summary table
MaxGroups == 3

OutcomeTypes == {"binary", "normal"}

EffectTypes == {"Absolute Effect", "Relative Effect"}

GroupNames == <<"Group 1", "Group 2", "Group 3", "Group 4", "Group 5">>

\* (sample size, successes) of binary groups with 0 <= successes <= sample size
BinaryGroups == {<<1000, 100>>, <<1000, 120>>, <<1000, 0>>, <<2000, 4>>, <<1, 1>>}

\* (sample size, mean, standard deviation) of normal groups
NormalGroups == {<<500, F(100, 0), F(15, 0)>>, <<500, F(105, 0), F(15, 0)>>,
                 <<100, F(5, 0), Zero>>, <<100, Zero, F(2, 0)>>, <<1, F(5, 0), F(2, 0)>>}

\* rows the data editor of the page can hold: also an empty group, a negative
\* count, a negative standard deviation
PageBinaryGroups == {<<2000, 0>>, <<2000, 4>>, <<1000, 120>>, <<0, 0>>, <<10, -1>>}

PageNormalGroups == {<<500, F(100, 0), F(15, 0)>>, <<500, F(105, 0), F(15, 0)>>,
                     <<100, Zero, F(2, 0)>>, <<0, F(5, 0), F(2, 0)>>, <<100, F(5, 0), F(-1, 0)>>}

\* 5%, 5%/3 and 10%
Alphas == {F(5, -2), FDiv(F(5, -2), F(3, 0)), F(1, -1)}

\* values of the significance level input, in percent
SignificanceLevels == {F(5, 0)}

\* rows of the experiment duration editor
ExperimentProgress == {[days_passed |-> 15, total_duration |-> 30],
                       [days_passed |-> 1, total_duration |-> 0]}

BinaryRow(i, g) == [group_name |-> GroupNames[i], sample_size |-> g[1], num_successes |-> g[2]]

NormalRow(i, g) == [group_name |-> GroupNames[i], sample_size |-> g[1], mean |-> g[2], stddev |-> g[3]]

\* the summary tables of lo..hi rows over the given groups
SummaryTables(outcome_type, groups, lo, hi) ==
    {[i \in DOMAIN t |-> IF outcome_type = "binary" THEN BinaryRow(i, t[i]) ELSE NormalRow(i, t[i])] :
        t \in UNION {[1..k -> groups] : k \in lo..hi}}

GroupsOf(outcome_type) == IF outcome_type = "binary" THEN BinaryGroups ELSE NormalGroups

PageGroupsOf(outcome_type) == IF outcome_type = "binary" THEN PageBinaryGroups ELSE PageNormalGroups

\* the pair lists the planner makes for n groups, and one pair given backwards
PairLists(n) == {get_comparison_pairs(ct, n) : ct \in ComparisonTypes} \cup {<<<<1, 0>>>>}

\* baseline conversion rates and the effects (fractions) added to them
BaselineProportions == {F(1, -1), F(5, -1), F(9, -1)}

ProportionMdes == {F(-5, -2), F(-2, -2), F(-1, -2), Zero, F(1, -2), F(2, -2), F(5, -2), F(2, -1)}

\* baseline means, their effects and standard deviations (None when not given)
BaselineMeans == {F(100, 0), F(5, 0)}

MeanMdes == {F(5, 0), F(5, -2), Zero, F(-5, -1)}

BaselineStdevs == {None, Zero, F(-1, 0), F(15, 0), F(8, 0)}

\* first proportions of a conversion: the baselines and two more
Prop1s == BaselineProportions \cup {F(6, -1), F(1256, -6)}

\* effect sizes to convert: extreme ones, and those binary_effect_size returns
\* for an absolute effect
EffectSizes ==
    {F(-100, 0), F(-5, -1), Zero, F(5, -1), F(100, 0), PInf, NInf}
        \cup {binary_effect_size("Absolute Effect", q, mde).val :
                 q \in BaselineProportions, mde \in ProportionMdes}

\* inputs of the power calculations
SolverEffectSizes == {Zero, F(1, -1), F(2, -1), F(5, -1)}

SolverAlphas == {F(5, -2), F(1, -2)}

Powers == {F(5, -1), F(8, -1), F(95, -2)}

SolverRatios == {F(5, -1), One, Two}

Nobs1s == {F(100, 0), F(394, 0), F(1000, 0), F(5000, 0)}

\* rows of the sample ratio mismatch table: sample size and expected proportion
SrmRows == {[sample_size |-> n, expected_proportion |-> e] :
               n \in {500, 900, 1000, 1040}, e \in {F(5, -1), F(25, -2)}}

SrmTables == UNION {[1..k -> SrmRows] : k \in 2..MaxGroups}

\* largest number of rows of a traffic allocation table
MaxAllocations == 3

\* values of the column "Traffic Allocation (%)"
Allocations == {F(-10, 0), Zero, F(30, 0), F(40, 0), F(50, 0), F(60, 0), F(100, 0), F(110, 0)}

TrafficAllocations == UNION {[1..k -> Allocations] : k \in 0..MaxAllocations}

\* rows given to valid_summary_data: those of the page, and a group with more
\* successes than samples
ValidatedGroupsOf(outcome_type) ==
    IF outcome_type = "binary" THEN PageBinaryGroups \cup {<<100, 150>>} ELSE PageNormalGroups

\* power grids: that of the page, a short one and a falling one
PowerRanges == {PowerGrid, <<F(5, -1), F(8, -1), F(95, -2)>>, <<F(95, -2), F(5, -1)>>}

\* ratios of the groups to the first or the largest group
FlightRatios == {<<One, One>>, <<One, F(75, -2), F(75, -2)>>, <<F(5, -1), One>>, <<One, Two>>}

CalculationTypes == {"Minimum Sample Size", "Minimum Detectable Effect"}

\* the arguments of plot_x_data the power page gives in either mode
SampleSizePlots ==
    {[calculation_type |-> "Minimum Sample Size", power_range |-> pr, nobs1 |-> None,
      effect_size |-> es, alpha |-> alpha, limiting_ratio |-> design_ratio(fr),
      flight_ratios |-> fr, outcome_type |-> "binary", effect_type |-> "Absolute Effect",
      baseline_mean |-> F(1, -1), baseline_stdev |-> None] :
        pr \in PowerRanges, es \in SolverEffectSizes, alpha \in SolverAlphas, fr \in FlightRatios}

DetectableEffectPlots ==
    {[calculation_type |-> "Minimum Detectable Effect", power_range |-> pr, nobs1 |-> nobs1,
      effect_size |-> None, alpha |-> F(5, -2), limiting_ratio |-> ratio,
      flight_ratios |-> <<One, One>>, outcome_type |-> ot, effect_type |-> et,
      baseline_mean |-> IF ot = "binary" THEN F(1, -1) ELSE F(100, 0),
      baseline_stdev |-> IF ot = "binary" THEN None ELSE F(15, 0)] :
        pr \in PowerRanges, nobs1 \in {F(394, 0), F(5000, 0)}, ratio \in {F(75, -2), One},
        ot \in OutcomeTypes, et \in EffectTypes}

\* columns "Traffic Allocation (%)" of the power page: valid ones, a total
\* above 100, a group without traffic, one group with all the traffic, a
\* single group and the empty table
PageSampleSplits ==
    {<<F(50, 0), F(50, 0)>>, <<F(50, 0), F(30, 0), F(20, 0)>>, <<F(30, 0), F(40, 0), F(30, 0)>>,
     <<F(40, 0), F(30, 0), F(30, 0)>>, <<F(60, 0), F(50, 0)>>, <<Zero, F(50, 0)>>,
     <<F(100, 0), F(50, 0)>>, <<F(50, 0)>>, <<>>}

\* the values of the widgets of the power page
PowerPageInputs ==
    {[outcome_type |-> ot, calculation_type |-> ct,
      baseline_mean |-> IF ot = "binary" THEN F(1, -1) ELSE F(100, 0),
      baseline_stdev |-> IF ot = "binary" THEN None ELSE F(50, 0),
      sample_split |-> split, effect_type |-> et,
      mde_level |-> IF ct = "Minimum Sample Size" THEN F(20, 0) ELSE None,
      available_sample_size |-> IF ct = "Minimum Sample Size" THEN None ELSE F(10000, 0),
      significance_level |-> F(5, 0), power_level |-> F(80, 0),
      comparison_type |-> cmp, mtc_type |-> mtc] :
        ot \in OutcomeTypes, ct \in CalculationTypes, split \in PageSampleSplits,
        et \in EffectTypes, cmp \in ComparisonTypes, mtc \in MTCTypes}

\* rows of the table of the sample ratio mismatch page: also an empty group,
\* an expected proportion of 0 and one of 100
PageSrmRows == {[sample_size |-> n, expected_proportion_pct |-> e] :
                   n \in {1000, 1040, 0}, e \in {F(50, 0), Zero, F(100, 0)}}

\* the tables of the page: that of two groups, and the empty one
PageSrmTables == {<<>>} \cup [1..2 -> PageSrmRows]

\* p-value thresholds of the page
Thresholds == {F(1, -3), F(5, -2)}

SeqsUpTo(S, n) == UNION {[1..k -> S] : k \in 1..n}

Init ==
    /\ op = "none"
    /\ args = <<>>
    /\ ret = Ok(None)

CallGetComparisonPairs ==
    /\ op = "none"
    /\ \E ct \in ComparisonTypes, n \in 0..MaxFlights :
        /\ op' = "get_comparison_pairs"
        /\ args' = [comparison_type |-> ct, num_flights |-> n]
        /\ ret' = Ok(get_comparison_pairs(ct, n))

CallAdjustedAlpha ==
    /\ op = "none"
    /\ \E a \in BaseAlphas, k \in (-1)..MaxComparisons, mtc \in MTCTypes,
       seq \in SequentialTypes, f \in InformationFractions :
        /\ op' = "adjusted_alpha"
        /\ args' = [base_alpha |-> a, num_comparisons |-> k, multiple_comparisons |-> mtc,
                    sequential_testing |-> seq, information_fraction |-> f]
        /\ ret' = adjusted_alpha(a, k, mtc, seq, f)

CallDesignRatio ==
    /\ op = "none"
    /\ \E ratios \in SeqsUpTo(RatioValues, MaxRatios) :
        /\ op' = "design_ratio"
        /\ args' = [ratios |-> ratios]
        /\ ret' = Ok(design_ratio(ratios))

CallBinomialConfidenceInterval ==
    /\ op = "none"
    /\ \E g1 \in BinaryGroups, g2 \in BinaryGroups, alpha \in Alphas \cup {One}, et \in EffectTypes :
        LET a == [prop1 |-> FDiv(F(g1[2], 0), F(g1[1], 0)), n1 |-> g1[1],
                  prop2 |-> FDiv(F(g2[2], 0), F(g2[1], 0)), n2 |-> g2[1],
                  confidence |-> FSub(One, alpha), effect_type |-> et]
        IN  /\ op' = "binomial_confidence_interval"
            /\ args' = a
            /\ ret' = Ok(binomial_confidence_interval(a.prop1, a.n1, a.prop2, a.n2,
                                                      a.confidence, a.effect_type))

CallNormalConfidenceInterval ==
    /\ op = "none"
    /\ \E g1 \in NormalGroups, g2 \in NormalGroups, alpha \in Alphas \cup {One}, et \in EffectTypes :
        LET a == [mean1 |-> g1[2], stdev1 |-> g1[3], n1 |-> g1[1],
                  mean2 |-> g2[2], stdev2 |-> g2[3], n2 |-> g2[1],
                  confidence |-> FSub(One, alpha), effect_type |-> et]
        IN  /\ op' = "normal_confidence_interval"
            /\ args' = a
            /\ ret' = Ok(normal_confidence_interval(a.mean1, a.stdev1, a.n1, a.mean2, a.stdev2,
                                                    a.n2, a.confidence, a.effect_type))

CallGroupDifferences ==
    /\ op = "none"
    /\ \E ot \in OutcomeTypes, et \in EffectTypes, alpha \in Alphas :
        \E table \in SummaryTables(ot, GroupsOf(ot), 2, MaxGroups) :
            \E pairs \in PairLists(Len(table)) :
                /\ op' = "group_differences"
                /\ args' = [experiment_data_summary |-> table, alpha |-> alpha,
                            comparison_pairs |-> pairs, outcome_type |-> ot, effect_type |-> et]
                /\ ret' = Ok(group_differences(table, alpha, pairs, ot, et))

ShowSignificance ==
    /\ op = "none"
    /\ \E ot \in OutcomeTypes, et \in EffectTypes, sl \in SignificanceLevels,
          ct \in ComparisonTypes, mtc \in MTCTypes, seq \in SequentialTypes,
          progress \in ExperimentProgress :
        \E table \in SummaryTables(ot, PageGroupsOf(ot), 0, MaxGroups) :
            /\ seq = "None" => progress = [days_passed |-> 15, total_duration |-> 30]
            /\ op' = "show_significance"
            /\ args' = [outcome_type |-> ot, experiment_summary |-> table, effect_type |-> et,
                        significance_level |-> sl, comparison_type |-> ct, mtc_type |-> mtc,
                        sequential_testing |-> seq,
                        experiment_progress |-> IF seq = "None" THEN None ELSE progress]
            /\ ret' = show_significance(ot, table, et, sl, ct, mtc, seq, progress)

CallBinaryEffectSize ==
    /\ op = "none"
    /\ \E et \in EffectTypes, p \in BaselineProportions, mde \in ProportionMdes :
        /\ op' = "binary_effect_size"
        /\ args' = [effect_type |-> et, baseline_mean |-> p, mde |-> mde]
        /\ ret' = binary_effect_size(et, p, mde)

CallNormalEffectSize ==
    /\ op = "none"
    /\ \E et \in EffectTypes, mean \in BaselineMeans, mde \in MeanMdes, sd \in BaselineStdevs :
        /\ op' = "normal_effect_size"
        /\ args' = [effect_type |-> et, baseline_mean |-> mean, mde |-> mde, baseline_stdev |-> sd]
        /\ ret' = normal_effect_size(et, mean, mde, sd)

CallEffectSize ==
    /\ op = "none"
    /\ \E ot \in OutcomeTypes, et \in EffectTypes, sd \in BaselineStdevs :
        \E mean \in IF ot = "binary" THEN BaselineProportions ELSE BaselineMeans,
           mde \in IF ot = "binary" THEN ProportionMdes ELSE MeanMdes :
            /\ op' = "effect_size"
            /\ args' = [outcome_type |-> ot, effect_type |-> et, baseline_mean |-> mean,
                        mde |-> mde, baseline_stdev |-> sd]
            /\ ret' = effect_size(ot, et, mean, mde, sd)

CallConvertEffectSizeForBinaryOutcome ==
    /\ op = "none"
    /\ \E et \in EffectTypes, es \in EffectSizes, q \in Prop1s :
        /\ op' = "convert_effect_size_for_binary_outcome"
        /\ args' = [effect_type |-> et, effect_size |-> es, prop1 |-> q]
        /\ ret' = Ok(convert_effect_size_for_binary_outcome(et, es, q))

CallN1SampleSize ==
    /\ op = "none"
    /\ \E es \in SolverEffectSizes, alpha \in SolverAlphas, power \in Powers, ratio \in SolverRatios :
        /\ op' = "n1_sample_size"
        /\ args' = [effect_size |-> es, alpha |-> alpha, power |-> power, ratio |-> ratio]
        /\ ret' = n1_sample_size(es, alpha, power, ratio)

CallMinimumDetectableEffectSize ==
    /\ op = "none"
    /\ \E nobs1 \in Nobs1s, alpha \in SolverAlphas, power \in Powers, ratio \in SolverRatios :
        /\ op' = "minimum_detectable_effect_size"
        /\ args' = [nobs1 |-> nobs1, power |-> power, alpha |-> alpha, ratio |-> ratio]
        /\ ret' = minimum_detectable_effect_size(nobs1, power, alpha, ratio)

CallSrmPvalue ==
    /\ op = "none"
    /\ \E sample_size_data \in SrmTables :
        /\ op' = "srm_pvalue"
        /\ args' = [sample_size_data |-> sample_size_data]
        /\ ret' = Ok(srm_pvalue(sample_size_data))

CallValidTrafficAllocation ==
    /\ op = "none"
    /\ \E traffic_allocation \in TrafficAllocations :
        /\ op' = "valid_traffic_allocation"
        /\ args' = [traffic_allocation |-> traffic_allocation]
        /\ ret' = Ok(valid_traffic_allocation(traffic_allocation))

CallValidSummaryData ==
    /\ op = "none"
    /\ \E ot \in OutcomeTypes :
        \E summary_data \in SummaryTables(ot, ValidatedGroupsOf(ot), 1, MaxGroups) :
            /\ op' = "valid_summary_data"
            /\ args' = [summary_data |-> summary_data, outcome_type |-> ot]
            /\ ret' = Ok(valid_summary_data(summary_data, ot))

CallPlotXData ==
    /\ op = "none"
    /\ \E a \in SampleSizePlots \cup DetectableEffectPlots :
        /\ op' = "plot_x_data"
        /\ args' = a
        /\ ret' = plot_x_data(a)

ShowPower ==
    /\ op = "none"
    /\ \E a \in PowerPageInputs :
        /\ op' = "show_power"
        /\ args' = a
        /\ ret' = show_power(a)

ShowSrmTest ==
    /\ op = "none"
    /\ \E sample_sizes \in PageSrmTables, threshold \in Thresholds :
        /\ op' = "show_srm_test"
        /\ args' = [sample_sizes |-> sample_sizes, threshold |-> threshold]
        /\ ret' = show_srm_test(sample_sizes, threshold)

\* format_outcomes_for_plots(experiment_results, ...) on the table that
\* group_differences has just returned (significance.py:71).  The function
\* assigns the scaled, rounded columns into the DataFrame it was given and
\* returns that same object (calculations.py:964-968): args.experiment_results is
\* the caller's table as it is once the call is over, args.passed holds the
\* values it had when the first call was made.
CallFormatOutcomesForPlots ==
    /\ op = "group_differences"
    /\ op' = "format_outcomes_for_plots"
    /\ args' = [experiment_results |->
                    format_outcomes_for_plots(ret.val, args.outcome_type, args.effect_type),
                passed |-> ret.val,
                outcome_type |-> args.outcome_type,
                effect_type |-> args.effect_type,
                calls |-> 1]
    /\ ret' = Ok(format_outcomes_for_plots(ret.val, args.outcome_type, args.effect_type))

\* the same call made once more on the same table object
CallFormatOutcomesForPlotsAgain ==
    /\ op = "format_outcomes_for_plots"
    /\ args.calls = 1
    /\ op' = "format_outcomes_for_plots"
    /\ args' = [args EXCEPT
                    !.experiment_results = format_outcomes_for_plots(
                        args.experiment_results, args.outcome_type, args.effect_type),
                    !.calls = 2]
    /\ ret' = Ok(format_outcomes_for_plots(args.experiment_results,
                                          args.outcome_type, args.effect_type))

Return ==
    /\ op # "none"
    /\ op' = "none"
    /\ args' = <<>>
    /\ ret' = Ok(None)

Next ==
    \/ CallGetComparisonPairs
    \/ CallAdjustedAlpha
    \/ CallDesignRatio
    \/ CallBinomialConfidenceInterval
    \/ CallNormalConfidenceInterval
    \/ CallGroupDifferences
    \/ ShowSignificance
    \/ CallBinaryEffectSize
    \/ CallNormalEffectSize
    \/ CallEffectSize
    \/ CallConvertEffectSizeForBinaryOutcome
    \/ CallN1SampleSize
    \/ CallMinimumDetectableEffectSize
    \/ CallSrmPvalue
    \/ CallValidTrafficAllocation
    \/ CallValidSummaryData
    \/ CallPlotXData
    \/ ShowPower
    \/ ShowSrmTest
    \/ CallFormatOutcomesForPlots
    \/ CallFormatOutcomesForPlotsAgain
    \/ Return

Spec == Init /\ [][Next]_vars

(***************************************************************************)
(* Properties                                                              *)
(***************************************************************************)
\* pair a comes before pair b in lexicographic order
LexLt(a, b) == a[1] < b[1] \/ (a[1] = b[1] /\ a[2] < b[2])

\* C1: for n >= 2 groups, 'Compare to first' returns exactly (0,1),...,(0,n-1) in
\* that order and 'Compare all pairs' returns exactly the n(n-1)/2 pairs (i,j)
\* with 0 <= i < j < n, each once, in ascending lexicographic order.
C1_ComparisonPairs ==
    (op = "get_comparison_pairs" /\ args.num_flights >= 2) =>
        LET n == args.num_flights
            pairs == ret.val
        IN  /\ ret.exc = "none"
            /\ IF args.comparison_type = "Compare to first"
               THEN /\ Len(pairs) = n - 1
                    /\ \A i \in 1..(n - 1) : pairs[i] = <<0, i>>
               ELSE /\ Len(pairs) = (n * (n - 1)) \div 2
                    /\ \A k \in 1..Len(pairs) :
                          0 <= pairs[k][1] /\ pairs[k][1] < pairs[k][2] /\ pairs[k][2] < n
                    /\ \A k \in 1..(Len(pairs) - 1) : LexLt(pairs[k], pairs[k + 1])
                    /\ \A i \in 0..(n - 1), j \in 0..(n - 1) :
                          i < j => \E k \in 1..Len(pairs) : pairs[k] = <<i, j>>

C1_Witness ==
    /\ op = "get_comparison_pairs"
    /\ args.comparison_type = "Compare all pairs"
    /\ args.num_flights = 3
    /\ ret.val = <<<<0, 1>>, <<0, 2>>, <<1, 2>>>>

\* C2: without sequential testing and with k >= 1 comparisons the adjusted alpha
\* is a/k under 'Bonferroni' and a itself, whatever k is, under 'None'.
C2_BonferroniOrUnchanged ==
    (op = "adjusted_alpha" /\ args.sequential_testing # "O'Brien-Fleming"
        /\ args.num_comparisons >= 1) =>
        /\ ret.exc = "none"
        /\ args.multiple_comparisons = "Bonferroni" =>
              ret.val = FDiv(args.base_alpha, F(args.num_comparisons, 0))
        /\ args.multiple_comparisons = "None" => ret.val = args.base_alpha

C2_Witness ==
    /\ op = "adjusted_alpha"
    /\ args.sequential_testing = "None"
    /\ args.multiple_comparisons = "Bonferroni"
    /\ args.num_comparisons = 3
    /\ args.base_alpha = F(5, -2)
    /\ ret.val = F(1667, -5)

\* r is the largest / the smallest element of the sequence s
IsLargest(r, s) == (\E i \in 1..Len(s) : s[i] = r) /\ \A i \in 1..Len(s) : FLe(s[i], r)

IsSmallest(r, s) == (\E i \in 1..Len(s) : s[i] = r) /\ \A i \in 1..Len(s) : FLe(r, s[i])

\* C3 as stated: design_ratio returns the larger of max(ratios) and 1/min(ratios).
C3_LargerOfMaxAndInverseMin ==
    op = "design_ratio" =>
        \E hi \in RatioValues, lo \in RatioValues :
            /\ IsLargest(hi, args.ratios)
            /\ IsSmallest(lo, args.ratios)
            /\ ret.val = (IF FGe(hi, FDiv(One, lo)) THEN hi ELSE FDiv(One, lo))

\* C3 amended: design_ratio returns max(ratios) when max(ratios) >= 1/min(ratios)
\* and otherwise min(ratios) itself, not its reciprocal; the result is always
\* one of the given ratios.
C3_MaxOrMin ==
    op = "design_ratio" =>
        \E hi \in RatioValues, lo \in RatioValues :
            /\ IsLargest(hi, args.ratios)
            /\ IsSmallest(lo, args.ratios)
            /\ ret.val = (IF FGe(hi, FDiv(One, lo)) THEN hi ELSE lo)

C3_Witness ==
    /\ op = "design_ratio"
    /\ args.ratios = <<One, F(75, -2), F(75, -2)>>
    /\ ret.val = F(75, -2)

\* C7: adjusted_alpha fails, returning no alpha, for every call with
\* num_comparisons < 1, whatever the two methods are.
C7_FailsBelowOneComparison ==
    (op = "adjusted_alpha" /\ args.num_comparisons < 1) =>
        ret.exc # "none" /\ ret.val = None

C7_Witness ==
    /\ op = "adjusted_alpha"
    /\ args.num_comparisons = 0
    /\ args.multiple_comparisons = "None"
    /\ args.sequential_testing = "None"
    /\ ret.exc = "AssertionError"

\* the information fraction is present and lies in (0, 1]
ValidFraction(f) == f # None /\ FGt(f, Zero) /\ FLe(f, One)

\* C8 as stated: with O'Brien-Fleming, adjusted_alpha fails whenever the
\* information fraction is absent or outside (0, 1].
C8_FailsOnInvalidFraction ==
    (op = "adjusted_alpha" /\ args.sequential_testing = "O'Brien-Fleming"
        /\ ~ValidFraction(args.information_fraction)) =>
        ret.exc # "none"

\* C9 as stated: every value adjusted_alpha returns under O'Brien-Fleming is at
\* least the floor 1e-13, hence never 0.
C9_AtLeastFloor ==
    (op = "adjusted_alpha" /\ args.sequential_testing = "O'Brien-Fleming"
        /\ ret.exc = "none") =>
        FGe(ret.val, MinAlpha) /\ ret.val # Zero

\* the alpha after the multiple comparisons correction alone
NominalAlpha == adjusted_alpha(args.base_alpha, args.num_comparisons, args.multiple_comparisons, "None", None).val

\* a and b differ by no more than the rounding of a tabulated probability
Close(a, b) == FLe(FSub(a, b), F(4, -4)) /\ FLe(FSub(b, a), F(4, -4))

\* the O'Brien-Fleming alpha of the current call at information fraction f
AlphaAt(f) == adjusted_alpha(args.base_alpha, args.num_comparisons, args.multiple_comparisons, "O'Brien-Fleming", f).val

OBFCall ==
    /\ op = "adjusted_alpha"
    /\ args.sequential_testing = "O'Brien-Fleming"
    /\ args.num_comparisons >= 1
    /\ ValidFraction(args.information_fraction)

NonDecreasingInFraction ==
    \A f2 \in {f \in InformationFractions : ValidFraction(f)} :
        FLe(args.information_fraction, f2) => FLe(ret.val, AlphaAt(f2))

\* C10 as stated: the O'Brien-Fleming alpha is non-decreasing in the information
\* fraction over (0, 1], below the nominal alpha for f < 1 and equal to it
\* (up to rounding) at f = 1.
C10_MonotoneBelowNominal ==
    OBFCall =>
        /\ ret.exc = "none"
        /\ NonDecreasingInFraction
        /\ FLt(args.information_fraction, One) => FLt(ret.val, NominalAlpha)
        /\ args.information_fraction = One => Close(ret.val, NominalAlpha)

\* C10 amended: the O'Brien-Fleming alpha is non-decreasing in the information
\* fraction over (0, 1]; when the nominal alpha exceeds the floor 1e-13 it is
\* below the nominal alpha for f < 1 and equal to it up to rounding at f = 1;
\* when the nominal alpha is at or below the floor it is the floor for every f.
C10_MonotoneAboveFloor ==
    OBFCall =>
        /\ ret.exc = "none"
        /\ NonDecreasingInFraction
        /\ FGt(NominalAlpha, MinAlpha) =>
              /\ FLt(args.information_fraction, One) => FLt(ret.val, NominalAlpha)
              /\ args.information_fraction = One => Close(ret.val, NominalAlpha)
        /\ FLe(NominalAlpha, MinAlpha) => ret.val = MinAlpha

C10_Witness ==
    /\ OBFCall
    /\ args.base_alpha = F(5, -2)
    /\ args.multiple_comparisons = "None"
    /\ args.information_fraction = F(5, -1)
    /\ FLt(MinAlpha, ret.val)
    /\ FLt(ret.val, AlphaAt(F(75, -2)))
    /\ FLt(AlphaAt(F(75, -2)), AlphaAt(One))

\* C4: every result binomial_confidence_interval or normal_confidence_interval
\* returns has ci_lower <= point_estimate <= ci_upper
C4_IntervalContainsEstimate ==
    (op \in {"binomial_confidence_interval", "normal_confidence_interval"} /\ ret.exc = "none")
        => /\ FLe(ret.val.ci_lower, ret.val.point_estimate)
           /\ FLe(ret.val.point_estimate, ret.val.ci_upper)

\* the estimate of group b minus group a, relative to group a for a relative effect
OrientedEstimate(outcome_type, effect_type, a, b) ==
    LET xa == IF outcome_type = "binary"
              THEN FDiv(F(a.num_successes, 0), F(a.sample_size, 0)) ELSE a.mean
        xb == IF outcome_type = "binary"
              THEN FDiv(F(b.num_successes, 0), F(b.sample_size, 0)) ELSE b.mean
    IN  IF effect_type = "Absolute Effect" THEN FSub(xb, xa) ELSE FDiv(FSub(xb, xa), xa)

\* C5: group_differences returns one row for each requested pair, in the order
\* of the pairs; the row of the pair (a, b) is named "<group b> - <group a>" and
\* its point estimate is that of group b minus group a
C5_RowPerPairOriented ==
    op = "group_differences" =>
        /\ Len(ret.val) = Len(args.comparison_pairs)
        /\ \A i \in 1..Len(args.comparison_pairs) :
              LET a == args.experiment_data_summary[args.comparison_pairs[i][1] + 1]
                  b == args.experiment_data_summary[args.comparison_pairs[i][2] + 1]
              IN  /\ ret.val[i].group_name = <<b.group_name, " - ", a.group_name>>
                  /\ ret.val[i].group1_name = a.group_name
                  /\ ret.val[i].group2_name = b.group_name
                  /\ ret.val[i].point_estimate
                        = OrientedEstimate(args.outcome_type, args.effect_type, a, b)

\* three binary groups compared in all pairs for an absolute effect, the last
\* row being Group 3 - Group 2 with the estimate 0.002 - 0.12
C5_Witness ==
    /\ op = "group_differences"
    /\ args.outcome_type = "binary"
    /\ args.effect_type = "Absolute Effect"
    /\ args.comparison_pairs = <<<<0, 1>>, <<0, 2>>, <<1, 2>>>>
    /\ args.experiment_data_summary[2].num_successes = 120
    /\ args.experiment_data_summary[3].num_successes = 4
    /\ Len(ret.val) = 3
    /\ ret.val[3].group_name = <<"Group 3", " - ", "Group 2">>
    /\ FLt(ret.val[3].point_estimate, Zero)

NormalEffectSizeCall ==
    \/ op = "normal_effect_size"
    \/ op = "effect_size" /\ args.outcome_type = "normal"

\* C11: normal_effect_size, and effect_size for a normal outcome, fails with a
\* ValueError and no effect size when baseline_stdev is None or <= 0; otherwise
\* it returns (new_mean - baseline_mean) / baseline_stdev, where new_mean is
\* baseline_mean + mde (absolute) or baseline_mean * (1 + mde) (relative)
C11_NormalEffectSize ==
    NormalEffectSizeCall =>
        IF args.baseline_stdev = None \/ FLe(args.baseline_stdev, Zero)
        THEN ret.exc = "ValueError" /\ ret.val = None
        ELSE /\ ret.exc = "none"
             /\ ret.val = FDiv(FSub(IF args.effect_type = "Absolute Effect"
                                    THEN FAdd(args.baseline_mean, args.mde)
                                    ELSE FMul(args.baseline_mean, FAdd(One, args.mde)),
                                    args.baseline_mean),
                               args.baseline_stdev)

\* effect_size for a normal outcome called with a baseline standard deviation of 0
C11_Witness ==
    /\ op = "effect_size"
    /\ args.outcome_type = "normal"
    /\ args.baseline_stdev = Zero
    /\ ret.exc = "ValueError"

\* a call of binary_effect_size, directly or through effect_size, that returned
BinaryEffectSizeCall ==
    /\ \/ op = "binary_effect_size"
       \/ op = "effect_size" /\ args.outcome_type = "binary"
    /\ ret.exc = "none"

\* the shifted proportion p2 of a binary effect size call
Proportion2 ==
    IF args.effect_type = "Absolute Effect"
    THEN FAdd(args.baseline_mean, args.mde)
    ELSE FMul(args.baseline_mean, FAdd(One, args.mde))

MdesInDomain ==
    {mde \in ProportionMdes : InUnit(FAdd(args.baseline_mean, mde))}

ConvertCall ==
    /\ op = "convert_effect_size_for_binary_outcome"
    /\ ~IsNaN(args.effect_size)

\* the least and the greatest value of the conversion before rounding:
\* those of the second proportions 0 and 1
ConvertLow ==
    IF args.effect_type = "Absolute Effect"
    THEN FMul(F(-100, 0), args.prop1)
    ELSE F(-100, 0)

ConvertHigh ==
    IF args.effect_type = "Absolute Effect"
    THEN FMul(F(100, 0), FSub(One, args.prop1))
    ELSE FMul(F(100, 0), FSub(FDiv(One, args.prop1), One))

\* C14 as stated: the conversion raises no error and its result lies in
\* [-100 * prop1, 100 * (1 - prop1)] for an absolute effect and in
\* [-100, 100 * (1 / prop1 - 1)] for a relative effect
C14_ResultInRange ==
    ConvertCall =>
        /\ ret.exc = "none"
        /\ FLe(ConvertLow, ret.val)
        /\ FLe(ret.val, ConvertHigh)

\* C14: the conversion raises no error and its result is within the rounding
\* error of 2 decimals, 0.005, of that range; an effect size that takes the
\* second proportion to 0 or below, or to 1 or above, gives the rounded end of
\* the range
C14_RoundedResultInRange ==
    ConvertCall =>
        /\ ret.exc = "none"
        /\ FLe(FSub(ConvertLow, F(5, -3)), ret.val)
        /\ FLe(ret.val, FAdd(ConvertHigh, F(5, -3)))
        /\ args.effect_size \in {F(-100, 0), NInf} => ret.val = FRound(ConvertLow, 2)
        /\ args.effect_size \in {F(100, 0), PInf} => ret.val = FRound(ConvertHigh, 2)

\* an effect size of -100 converted for a first proportion of 0.6 saturates
\* at -60 percentage points
C14_Witness ==
    /\ op = "convert_effect_size_for_binary_outcome"
    /\ args.effect_type = "Absolute Effect"
    /\ args.effect_size = F(-100, 0)
    /\ args.prop1 = F(6, -1)
    /\ ret = Ok(F(-60, 0))

\* the absolute mde recovered from the effect size a binary_effect_size call
\* returned, as a fraction
RecoveredMde ==
    FMul(convert_effect_size_for_binary_outcome("Absolute Effect", ret.val, args.baseline_mean),
         F(1, -2))

\* C15: for an absolute mde with p + mde in [0, 1], converting the effect size
\* binary_effect_size returned back with convert_effect_size_for_binary_outcome
\* gives mde * 100 within 0.001 on the fraction scale
C15_RoundTrip ==
    (op = "binary_effect_size" /\ args.effect_type = "Absolute Effect" /\ args.mde \in MdesInDomain) =>
        /\ FLe(FSub(RecoveredMde, args.mde), F(1, -3))
        /\ FLe(FSub(args.mde, RecoveredMde), F(1, -3))

\* the sample size n1_sample_size returns for the effect size, power and
\* ratio given, and the alpha of the present call
N1At(size, power, ratio) == n1_sample_size(size, args.alpha, power, ratio).val

\* a call of n1_sample_size that returned a sample size
N1Returned == op = "n1_sample_size" /\ ret.exc = "none"

\* C16: for fixed alpha and ratio n1_sample_size never returns less for a
\* smaller non-zero effect size or for a higher power, and returns more for
\* the effect size 0.1 than for 0.5 and for the power 0.95 than for 0.5;
\* minimum_detectable_effect_size decreases as nobs1 increases
C16_Monotone ==
    /\ N1Returned =>
          /\ \A size2 \in SolverEffectSizes \ {Zero} :
                FLt(args.effect_size, size2) => ret.val >= N1At(size2, args.power, args.ratio)
          /\ \A power2 \in Powers :
                FLt(args.power, power2) => ret.val <= N1At(args.effect_size, power2, args.ratio)
          /\ args.effect_size = F(1, -1) => ret.val > N1At(F(5, -1), args.power, args.ratio)
          /\ args.power = F(95, -2) => ret.val > N1At(args.effect_size, F(5, -1), args.ratio)
    /\ op = "minimum_detectable_effect_size" =>
          \A nobs2 \in Nobs1s :
              FLt(args.nobs1, nobs2) =>
                  FGt(ret.val, minimum_detectable_effect_size(nobs2, args.power, args.alpha, args.ratio).val)

\* n1_sample_size returned for the effect size 0.1 and the power 0.95
C16_Witness ==
    /\ N1Returned
    /\ args.effect_size = F(1, -1)
    /\ args.power = F(95, -2)
    /\ ret.val > 1000

BonferroniRows ==
    group_differences(args.experiment_data_summary,
                      adjusted_alpha(args.alpha, Len(args.comparison_pairs), "Bonferroni",
                                     "None", None).val,
                      args.comparison_pairs, args.outcome_type, args.effect_type)

\* row has a proper interval, as a non-zero standard error gives
ProperInterval(row) ==
    IsFinite(row.ci_lower) /\ IsFinite(row.ci_upper) /\ FLt(row.ci_lower, row.ci_upper)

\* the interval of corrected is strictly wider than that of row: it contains
\* it and reaches further on at least one side, around the same point estimate
StrictlyWider(corrected, row) ==
    /\ corrected.point_estimate = row.point_estimate
    /\ FLe(corrected.ci_lower, row.ci_lower)
    /\ FGe(corrected.ci_upper, row.ci_upper)
    /\ FLt(corrected.ci_lower, row.ci_lower) \/ FGt(corrected.ci_upper, row.ci_upper)

\* C19: with k >= 2 comparison pairs, every proper interval group_differences
\* returns at alpha has, at the Bonferroni-adjusted alpha / k and for the same
\* data and pairs, a strictly wider interval with the same point estimate
C19_BonferroniWider ==
    (op = "group_differences" /\ Len(args.comparison_pairs) >= 2) =>
        \A i \in 1..Len(ret.val) :
            ProperInterval(ret.val[i]) => StrictlyWider(BonferroniRows[i], ret.val[i])

\* three binary groups compared in all pairs at alpha 0.05, with a proper
\* interval in every row
C19_Witness ==
    /\ op = "group_differences"
    /\ args.outcome_type = "binary"
    /\ args.alpha = F(5, -2)
    /\ Len(args.comparison_pairs) = 3
    /\ \A i \in 1..3 : ProperInterval(ret.val[i])

RECURSIVE GoodnessOfFitStat(_, _, _)
\* the statistic over one cell per group
GoodnessOfFitStat(sample_size_data, nobs, n) ==
    IF n = 0 THEN Zero
    ELSE FAdd(GoodnessOfFitStat(sample_size_data, nobs, n - 1),
              CountCell(sample_size_data[n], nobs))

\* the total sample size of the table of the present srm_pvalue call
SrmTotal == TotalSamples(args.sample_size_data, Len(args.sample_size_data))

\* every group's sample size equals its expected count
ObservedAsExpected ==
    \A i \in 1..Len(args.sample_size_data) :
        FEq(F(args.sample_size_data[i].sample_size, 0),
            FMul(F(SrmTotal, 0), args.sample_size_data[i].expected_proportion))

\* C20: srm_pvalue returns the p-value of the chi-square goodness-of-fit test
\* with one cell per group, observed = the group's sample size and expected =
\* expected proportion * total, on (number of groups - 1) degrees of freedom;
\* it is 1 when every observed count equals its expected count
C20_GoodnessOfFit ==
    op = "srm_pvalue" =>
        /\ ret.val = Chi2Sf(GoodnessOfFitStat(args.sample_size_data, SrmTotal,
                                              Len(args.sample_size_data)),
                            Len(args.sample_size_data) - 1)
        /\ ObservedAsExpected => ret.val = One

\* every allocation of the present valid_traffic_allocation call is strictly
\* between 0 and 100 and the allocations sum to at most 100
AllocationsInRange ==
    /\ \A i \in 1..Len(args.traffic_allocation) :
          FGt(args.traffic_allocation[i], Zero) /\ FLt(args.traffic_allocation[i], F(100, 0))
    /\ FLe(SeriesSum(args.traffic_allocation), F(100, 0))

\* C21 as stated: valid_traffic_allocation returns true if and only if every
\* allocation is strictly between 0 and 100 and the allocations sum to at most
\* 100
C21_TrueIffInRange ==
    op = "valid_traffic_allocation" => (ret.val <=> AllocationsInRange)

\* C21: valid_traffic_allocation returns true if and only if the table has at
\* least one row, every allocation is strictly between 0 and 100 and the
\* allocations sum to at most 100
C21_TrueIffNonEmptyInRange ==
    op = "valid_traffic_allocation" =>
        (ret.val <=> (Len(args.traffic_allocation) >= 1 /\ AllocationsInRange))

\* the allocations 60 and 60 were refused for their total alone
C21_Witness ==
    /\ op = "valid_traffic_allocation"
    /\ args.traffic_allocation = <<F(60, 0), F(60, 0)>>
    /\ ret = Ok(FALSE)

\* C22: valid_summary_data for a binary outcome returns false whenever some
\* group has a non-positive sample size, a negative success count, or more
\* successes than samples
C22_RejectsInvalidBinary ==
    (op = "valid_summary_data" /\ args.outcome_type = "binary") =>
        ((\E i \in 1..Len(args.summary_data) :
              \/ args.summary_data[i].sample_size <= 0
              \/ args.summary_data[i].num_successes < 0
              \/ args.summary_data[i].num_successes > args.summary_data[i].sample_size)
            => ret.val = FALSE)

\* C23: get_comparison_pairs fails, returning no pair list, when the number
\* of groups is 0 or 1, for both comparison types
C23_FailsBelowTwoGroups ==
    (op = "get_comparison_pairs" /\ args.num_flights < 2) =>
        ret.exc # "none" /\ ret.val = None

\* the ratios of the present design_ratio call are taken relative to a first
\* group that has the largest allocation: the first is 1, none is above 1 and
\* one is below 1
FirstGroupLargest ==
    /\ Len(args.ratios) >= 2
    /\ args.ratios[1] = One
    /\ \A i \in 1..Len(args.ratios) : FLe(args.ratios[i], One)
    /\ \E i \in 1..Len(args.ratios) : FLt(args.ratios[i], One)

\* C24: when the first group has the largest allocation, design_ratio returns
\* the smallest of the ratios, which is below 1
C24_SmallestBelowOne ==
    (op = "design_ratio" /\ FirstGroupLargest) =>
        /\ FLt(ret.val, One)
        /\ \E i \in 1..Len(args.ratios) : ret.val = args.ratios[i]
        /\ \A i \in 1..Len(args.ratios) : FLe(ret.val, args.ratios[i])

\* the ratios 1, 0.5, 0.75 gave the limiting ratio 0.5
C24_Witness ==
    /\ op = "design_ratio"
    /\ args.ratios = <<One, F(5, -1), F(75, -2)>>
    /\ ret.val = F(5, -1)

\* a call of plot_x_data for sample sizes with a non-zero effect size, or
\* for detectable effects
PlotCall ==
    /\ op = "plot_x_data"
    /\ args.calculation_type = "Minimum Sample Size" => ~FEq(args.effect_size, Zero)

\* C25: plot_x_data returns one x value for each element of the power grid, in
\* the order of the grid, in both calculation types; for sample sizes the value
\* of the power p is ceil(n1_sample_size(p) * sum(flight_ratios)), it is
\* positive, it does not fall where the power rises, and over the grid from
\* 10% to 99% the first value is below the last
C25_OneValuePerPower ==
    PlotCall =>
        /\ ret.exc = "none"
        /\ Len(ret.val) = Len(args.power_range)
        /\ args.calculation_type = "Minimum Sample Size" =>
              /\ \A i \in 1..Len(args.power_range) :
                    /\ ret.val[i] = CeilMul(n1_sample_size(args.effect_size, args.alpha,
                                                           args.power_range[i],
                                                           args.limiting_ratio).val,
                                            SeriesSum(args.flight_ratios))
                    /\ ret.val[i] > 0
              /\ \A i \in 1..Len(args.power_range), j \in 1..Len(args.power_range) :
                    FLe(args.power_range[i], args.power_range[j]) => ret.val[i] <= ret.val[j]
              /\ args.power_range = PowerGrid => ret.val[1] < ret.val[90]
        /\ args.calculation_type = "Minimum Detectable Effect" =>
              \A i \in 1..Len(args.power_range) :
                  IsFinite(ret.val[i])
                  /\ \A j \in 1..Len(args.power_range) :
                        FLe(args.power_range[i], args.power_range[j]) => FLe(ret.val[i], ret.val[j])

\* the sample size curve of three groups over the grid of the power page
C25_Witness ==
    /\ op = "plot_x_data"
    /\ args.calculation_type = "Minimum Sample Size"
    /\ args.power_range = PowerGrid
    /\ Len(args.flight_ratios) = 3
    /\ ret.exc = "none"
    /\ Len(ret.val) = 90

\* C26: every core calculation leaves its inputs unchanged: once
\* format_outcomes_for_plots has returned, the results table passed in holds
\* the values it held before the call, so that formatting the same table a
\* second time gives the output of the first time.
C26_InputsUnchanged ==
    op = "format_outcomes_for_plots" =>
        /\ args.experiment_results = args.passed
        /\ args.calls = 2 =>
                ret.val = format_outcomes_for_plots(args.passed, args.outcome_type,
                                                    args.effect_type)

\* C27: for every summary table valid_summary_data accepts and every list of
\* comparison pairs over its rows, group_differences raises or returns rows
\* whose point estimate and bounds are all finite, never NaN or infinity.
C27_RaisesOrFinite ==
    (/\ op = "group_differences"
     /\ valid_summary_data(args.experiment_data_summary, args.outcome_type)
     /\ ret.exc = "none")
        => \A i \in DOMAIN ret.val :
                /\ IsFinite(ret.val[i].point_estimate)
                /\ IsFinite(ret.val[i].ci_lower)
                /\ IsFinite(ret.val[i].ci_upper)

\* the outcome of the call of adjusted_alpha the power page makes before it
\* looks at the validity of the traffic allocation
PowerPageAlpha ==
    adjusted_alpha(FDiv(args.significance_level, F(100, 0)),
                   Len(get_comparison_pairs(args.comparison_type, Len(args.sample_split))),
                   args.mtc_type, "None", None)

\* the outcome of the call of adjusted_alpha the significance page makes
\* before it looks at the validity of the summary table
SignificancePageAlpha ==
    adjusted_alpha(FDiv(args.significance_level, F(100, 0)),
                   Len(get_comparison_pairs(args.comparison_type, Len(args.experiment_summary))),
                   args.mtc_type, args.sequential_testing,
                   IF args.sequential_testing # "None"
                   THEN FDiv(F(args.experiment_progress.days_passed, 0),
                             F(args.experiment_progress.total_duration, 0))
                   ELSE None)

\* the page ran its calculations and shows their results, or one of them
\* raised; the only call before them that can raise is adjusted_alpha
Calculated(alpha) ==
    IF ret.exc = "none" THEN ret.val.shown = "results" ELSE alpha.exc = "none"

\* the page shows nothing but its error message, or ended in adjusted_alpha
NothingCalculated(alpha, message) ==
    IF alpha.exc # "none" THEN ret = alpha ELSE ret = Ok([shown |-> message])

C29_RoundingKeepsVerdict ==
    (op = "format_outcomes_for_plots" /\ args.calls = 1) =>
        Verdicts(ret.val) = Verdicts(args.passed)

\* the place of the power level of the page in the power grid of the curve
TargetPowerIndex ==
    CHOOSE i \in DOMAIN PowerGrid : PowerGrid[i] = FDiv(args.power_level, F(100, 0))

\* C30: in the mode "Minimum Sample Size" the total samples required the
\* power page reports, the sum over the groups of ceil(ratio * n1), equals
\* the x value of the power curve at the power level of the page, which is
\* ceil(n1 * sum of the ratios) for the same n1 and the same ratios.
C30_TotalEqualsCurveValue ==
    (/\ op = "show_power"
     /\ args.calculation_type = "Minimum Sample Size"
     /\ ret.exc = "none"
     /\ ret.val.shown = "results")
        => ret.val.total_samples_required = ret.val.plot_x_data[TargetPowerIndex]

====
